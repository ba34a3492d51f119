------------------------- MODULE MCInvitationTexts -------------------------
EXTENDS InvitationTexts, TLC

CONSTANTS i1, e1, e2, a1, a2, b1, A, B

MCPageOf == [s \in Slots |-> IF s = b1 THEN B ELSE A]

\* One that leaves the text to the template, and one without an image.
MCDrafts == [text : {None}, image : Images] \cup [text : Texts, image : {None}]

Sym == Permutations(Editors) \cup Permutations({a1, a2})
=============================================================================
