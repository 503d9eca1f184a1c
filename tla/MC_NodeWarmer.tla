---------------------------- MODULE MC_NodeWarmer ----------------------------
(* Model-checking instances of NodeWarmer.                                  *)
EXTENDS NodeWarmer, TLC

\* Secrets that exist carry credentials for the image's registry.
MCSecretsMatching == {"None", "Match"}

\* A secret may also exist without credentials for the image's registry.
MCSecretsAll == {"None", "Match", "NoMatch"}

CONSTANTS w1, w2, i1, i2   \* model values for ImageWarms and images

\* Two ImageWarms on the node name two images.
MCTwoImages == (w1 :> i1) @@ (w2 :> i2)

\* Both ImageWarms name the same image: two Images cache it.
MCSharedImage == (w1 :> i1) @@ (w2 :> i1)

\* A single ImageWarm.
MCOneWarm == w1 :> i1

================================================================================
