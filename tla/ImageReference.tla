--------------------------- MODULE ImageReference ---------------------------
(***************************************************************************)
(* How the warmer decides whether an image is already on the node:        *)
(* serialImagePuller.ImageExists (trim "docker.io", then a tag or digest  *)
(* lookup), cri.ParseRepositoryTag and ImageInfo.ContainsImage /           *)
(* ContainsImageHash, checked against what docker lists for an image it    *)
(* pulled (RepoTags, RepoDigests in familiar form) and against the         *)
(* reference grammar of the docker distribution library.                   *)
(*                                                                         *)
(* A string is a sequence of text fragments. The fragments are chosen so   *)
(* that none of the patterns the code searches for ("/", ":", "@",        *)
(* "docker.io", "@sha256") spans two fragments or sits inside a fragment   *)
(* other than those named below, so a search over the text is a search     *)
(* over the fragments.                                                     *)
(***************************************************************************)
EXTENDS Naturals, Sequences, SequencesExt

CONSTANTS
  PathComponents,   \* repository path components, e.g. "library", "nginx"
  Tags,             \* tags, e.g. "latest", "v1"
  MaxPathLen,       \* components of a repository path
  DigestRefs        \* whether references carry a digest: BOOLEAN or {FALSE}

\* Registry hosts: Docker Hub's two names, a private registry whose name
\* contains "docker.io", another registry, and one with a port, whose text
\* holds a ":".
Domains == {<<>>, <<"docker.io">>, <<"index.docker.io">>, <<"mydocker.io">>,
            <<"gcr.io">>, <<"localhost", ":", "5000">>}

\* The fragments whose text contains "docker.io".
DockerIoFragments == {"docker.io", "index.docker.io", "mydocker.io"}

\* The digest of the one image content in the model: "sha256:abc".
DigestText == <<"sha256", ":", "abc">>

ASSUME /\ "library" \in PathComponents
       /\ "latest" \in Tags
       /\ MaxPathLen \in 1..2
       /\ FALSE \in DigestRefs /\ DigestRefs \subseteq BOOLEAN

VARIABLES
  ref,      \* the reference in an ImageWarm's spec.image
  pulled    \* the reference docker pulled the image on the node with

vars == <<ref, pulled>>

\* A reference as the distribution grammar builds it:
\* [domain "/"] path [":" tag] ["@" digest]; tag "" is no tag.
Reference == [domain : Domains,
              path : UNION {[1..k -> PathComponents] : k \in 1..MaxPathLen},
              tag : Tags \cup {""},
              digest : DigestRefs]

RECURSIVE JoinPath(_)
JoinPath(p) == IF Len(p) = 1 THEN p ELSE <<Head(p), "/">> \o JoinPath(Tail(p))

NameText(r) ==
  (IF r.domain = <<>> THEN <<>> ELSE r.domain \o <<"/">>) \o JoinPath(r.path)

\* The reference as it is written in spec.image.
Render(r) ==
  NameText(r)
    \o (IF r.tag = "" THEN <<>> ELSE <<":", r.tag>>)
    \o (IF r.digest THEN <<"@">> \o DigestText ELSE <<>>)

TypeOK == ref \in Reference /\ pulled \in Reference

-----------------------------------------------------------------------------
(* The code.                                                               *)

\* strings.Index / strings.LastIndex, 1-based, 0 when absent.
IndexOf(s, t) == SelectInSeq(s, LAMBDA x : x = t)
LastIndexOf(s, t) == SelectLastInSeq(s, LAMBDA x : x = t)

\* The text after the first "/", or "" when there is none:
\* strings.Join(strings.Split(imageRef, "/")[1:], "/").
AfterFirstSlash(s) ==
  IF IndexOf(s, "/") = 0 THEN <<>> ELSE SubSeq(s, IndexOf(s, "/") + 1, Len(s))

\* The prefix that ImageExists cuts: every reference whose text contains
\* "docker.io", wherever, loses its first path segment.
TrimDockerIo(s) ==
  IF \E k \in 1..Len(s) : s[k] \in DockerIoFragments
  THEN AfterFirstSlash(s)
  ELSE s

IsDigestRef(s) == \E k \in 1..Len(s) - 1 : s[k] = "@" /\ s[k + 1] = "sha256"

\* cri.ParseRepositoryTag: split at the first "@" (keeping the text up to
\* the next "@"), else at the last ":" unless what follows holds a "/".
ParseRepositoryTag(s) ==
  LET at    == IndexOf(s, "@")
      rest  == SubSeq(s, at + 1, Len(s))
      colon == LastIndexOf(s, ":")
      tag   == SubSeq(s, colon + 1, Len(s))
  IN  IF at > 0
      THEN <<SubSeq(s, 1, at - 1),
             IF IndexOf(rest, "@") = 0 THEN rest
             ELSE SubSeq(rest, 1, IndexOf(rest, "@") - 1)>>
      ELSE IF colon = 0 THEN <<s, <<>>>>
      ELSE IF ~Contains(tag, "/") THEN <<SubSeq(s, 1, colon - 1), tag>>
      ELSE <<s, <<>>>>

\* ImageInfo.ContainsImage and ImageInfo.ContainsImageHash.
ContainsImage(info, name, tag) ==
  \E rt \in info.repoTags : ParseRepositoryTag(rt) = <<name, tag>>

ContainsImageHash(info, hash) == hash \in info.repoDigests

\* ImageTagExists / ImageHashExists over the listed images (a ListImages
\* error answers FALSE, which the puller ignores: not modelled here).
ImageTagExists(infos, name, tag) == \E info \in infos : ContainsImage(info, name, tag)
ImageHashExists(infos, s) == \E info \in infos : ContainsImageHash(info, s)

\* serialImagePuller.ImageExists.
ImageExists(s, infos) ==
  LET r == TrimDockerIo(s)
  IN  IF IsDigestRef(r)
      THEN ImageHashExists(infos, r)
      ELSE ImageTagExists(infos, ParseRepositoryTag(r)[1], ParseRepositoryTag(r)[2])

-----------------------------------------------------------------------------
(* Docker's side: normalisation and what ImageList reports.                *)

\* splitDockerDomain: a missing domain, and index.docker.io, are docker.io;
\* a single-component docker.io path gets "library/".
CanonDomain(r) ==
  IF r.domain \in {<<>>, <<"index.docker.io">>} THEN <<"docker.io">> ELSE r.domain

CanonPath(r) ==
  IF CanonDomain(r) = <<"docker.io">> /\ Len(r.path) = 1
  THEN <<"library">> \o r.path ELSE r.path

\* A digest pins the content; otherwise a missing tag is "latest".
CanonTag(r) == IF r.tag = "" /\ ~r.digest THEN "latest" ELSE r.tag

\* reference.FamiliarName: docker.io and docker.io's "library/" are dropped.
FamiliarName(r) ==
  IF CanonDomain(r) # <<"docker.io">> THEN CanonDomain(r) \o <<"/">> \o JoinPath(CanonPath(r))
  ELSE IF Len(CanonPath(r)) = 2 /\ CanonPath(r)[1] = "library" THEN <<CanonPath(r)[2]>>
  ELSE JoinPath(CanonPath(r))

\* The ImageInfo listed after pulling r: pulled by digest it has no tag
\* (docker ignores a tag next to a digest), and it always has its digest.
Stored(r) ==
  [repoTags    |-> IF r.digest THEN {} ELSE {FamiliarName(r) \o <<":", CanonTag(r)>>},
   repoDigests |-> {FamiliarName(r) \o <<"@">> \o DigestText}]

\* Reference r names the image that was pulled with reference p.
Designates(r, p) ==
  /\ CanonDomain(r) = CanonDomain(p)
  /\ CanonPath(r) = CanonPath(p)
  /\ r.digest \/ (~p.digest /\ CanonTag(r) = CanonTag(p))

-----------------------------------------------------------------------------
Init == ref \in Reference /\ pulled \in Reference

\* The algorithms are pure: the checked behaviour is the choice of inputs.
Next == UNCHANGED vars

Spec == Init /\ [][Next]_vars

-----------------------------------------------------------------------------
(* Properties.                                                             *)

\* ImageExists answers whether the node holds the image spec.image names:
\* TRUE for an image pulled under another reference would mark an ImageWarm
\* Ready for an absent image; FALSE for the image spec.image names makes the
\* warmer pull it again on every reconcile and never mark it Ready.
ImageExistsExact ==
  ImageExists(Render(ref), {Stored(pulled)}) <=> Designates(ref, pulled)

=============================================================================
