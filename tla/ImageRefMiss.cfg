\* Every reference of up to two path components over three components and
\* two tags, with and without a tag, under each of the six registries,
\* against every image docker may have pulled by tag.
CONSTANTS
  PathComponents = {"library", "nginx", "team"}
  Tags = {"latest", "v1"}
  MaxPathLen = 2
  DigestRefs = {FALSE}

SPECIFICATION Spec

INVARIANT ImageExistsExact
