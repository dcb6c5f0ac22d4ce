------------------------ MODULE MCAttachmentStorage -------------------------
\* One attachment and two removals of it: attachments do not interact.
EXTENDS AttachmentStorage, TLC

CONSTANTS a1, m1, m2

Symmetry == Permutations({m1, m2})
=============================================================================
