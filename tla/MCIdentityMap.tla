--------------------------- MODULE MCIdentityMap ----------------------------
(* Instances of IdentityMap: two OpenIDs and up to five rows.                  *)
EXTENDS IdentityMap, TLC

CONSTANTS o1, o2

Two == <<o1, o2>>

\* Rows by OpenID, and a table with the counter.
Pair(x, y)       == (o1 :> x) @@ (o2 :> y)
Table(x, y, ctr) == Pair(x, y) @@ (Counter :> ctr)

\* o1's first choice is also o2's: the second digit count decides.
Colliding2 == Pair(<<1, 2>>, <<1, 3>>)
Distinct2  == Pair(<<1, 4>>, <<2, 4>>)
Narrow2    == Pair(<<1, 2>>, <<2, 1>>)

\* Rows as the hash yields them, with and without the other OpenID.
HashLegacy  == {Table(1, 2, None), Table(1, None, None), Table(None, 2, None), None}
\* Rows counted up, and one that an unbind of an older version left at 0.
CountLegacy == {Table(1, 2, 2), Table(2, None, 2), Table(0, 1, 1), None}
CountLegacy1 == {Table(2, None, 2)}
OneLegacy   == {Table(1, None, None), None}
\* A legacy file without identities, so that both may register during the migration.
EmptyLegacy == {Table(None, None, None)}
MigrateLegacy == HashLegacy \cup EmptyLegacy
=============================================================================
