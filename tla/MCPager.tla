------------------------------ MODULE MCPager ------------------------------
(* Values of the constants of Pager for TLC. *)
EXTENDS Pager, TLC

CONSTANTS user1, sst1, user2

\* The user process and the SST of address space 1, one process of 2.
AsidOf == [t \in Client |-> IF t = user2 THEN 2 ELSE 1]

\* The pages in use.
ThreePages == {<<1, 0>>, <<1, 1>>, <<2, 0>>}
TwoPages   == {<<1, 0>>, <<1, 1>>}
WithStack  == {<<1, 0>>, <<1, STACK>>}

\* Page 0 of address space 1 is data.
Data   == {<<1, 0>>}
Blocks == [k \in Key |-> k[2] % 2]

\* The pager does not tell the two processes of an address space apart.
OfOne == Permutations({user1, sst1})
=============================================================================
