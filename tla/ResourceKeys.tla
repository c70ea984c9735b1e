---------------------------- MODULE ResourceKeys ----------------------------
(***************************************************************************)
(* Effect authority (Server/Intent/Resources.go).  A plan declares the     *)
(* resource keys it needs; two operations may run side by side only when   *)
(* none of their keys overlap.  Overlap is hierarchical: the wildcard "*"  *)
(* in a dimension matches every value of it, an empty account matches      *)
(* every account, and an account-wide key covers the same capability of    *)
(* every castle and kingdom of that account.                               *)
(***************************************************************************)
EXTENDS Integers

\* Resources.go: the five ResourceScope values.
Scopes == {"application", "session", "account", "kingdom", "castle"}

\* A key after normalizeResourceKeys: text dimensions are trimmed and lower
\* case, a key without scope, capability or kind was dropped, and a missing
\* ResourceID was replaced by "*".
IsResourceKey(k) ==
    /\ k.scope \in Scopes
    /\ k.capability # "" /\ k.kind # "" /\ k.id # ""

dimensionsOverlap(left, right) == left = "*" \/ right = "*" \/ left = right

\* The three dimensions every overlap ends with.
DimensionsMeet(left, right) ==
    /\ dimensionsOverlap(left.capability, right.capability)
    /\ dimensionsOverlap(left.kind, right.kind)
    /\ dimensionsOverlap(left.id, right.id)

\* An account key reaches into a castle or kingdom of the account, unless the
\* child is the castle- or kingdom-wide wildcard capability.
AccountCovers(parent, child) ==
    /\ parent.scope = "account"
    /\ child.scope \in {"castle", "kingdom"}
    /\ child.capability # "*"
    /\ DimensionsMeet(parent, child)

SamePlace(left, right) ==
    /\ left.scope = right.scope
    /\ left.scope = "castle" => left.castle = right.castle
    /\ left.scope = "kingdom" => left.kingdom = right.kingdom

resourceKeysOverlap(left, right) ==
    \/ left = right
    \/ /\ left.account = "" \/ right.account = "" \/ left.account = right.account
       /\ \/ SamePlace(left, right) /\ DimensionsMeet(left, right)
          \/ AccountCovers(left, right)
          \/ AccountCovers(right, left)

resourcesOverlap(left, right) ==
    \E first \in left, second \in right : resourceKeysOverlap(first, second)

=============================================================================
