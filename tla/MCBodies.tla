------------------------------- MODULE MCBodies -------------------------------
(***************************************************************************)
(* Bodies for TLC: forms of up to two parts of each kind, and readers that *)
(* are as long as they say, shorter or longer.                             *)
(***************************************************************************)
EXTENDS Bodies

MCParts == {PartText(2), PartFile(3, 3), PartFile(2, 3), PartReader(0),
            PartReader(2), PartReaderWithLength(2, 3)}

MCSources ==
    {FormNew} \cup {FormPart(FormNew, p) : p \in MCParts}
    \cup {FormPart(FormPart(FormNew, p), q) : p, q \in MCParts}
    \cup {BodyNew(n) : n \in {0, 6, 9}}
    \cup {BodySized(n, len) : n \in {0, 6, 9}, len \in {0, 3, 6, 7}}
=============================================================================
