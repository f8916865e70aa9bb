------------------------------- MODULE Merkle -------------------------------
(***************************************************************************)
(* Inclusion proofs of a registry's transparency log: the verifier of      *)
(* crates/grease-pkg/src/lib.rs, and the RFC 6962 tree it must agree with, *)
(* which the tests of that file build (ref_root, ref_proof).               *)
(*                                                                         *)
(* A hash is the term that was hashed, so two hashes are equal exactly     *)
(* when what was hashed is: SHA-256 is taken to be injective.              *)
(***************************************************************************)
EXTENDS Integers, Sequences, SequencesExt

(* The tags 0 and 1 keep a leaf from being taken for a node.               *)
LeafHash(d) == <<0, d>>
NodeHash(l, r) == <<1, l, r>>

(* largest_pow2_below(n), for n > 1: half the first power of two that is   *)
(* not below n.                                                            *)
SplitAt(n) ==
    LET half[k \in 1..n] == IF k =< 2 THEN 1 ELSE 2 * half[(k + 1) \div 2]
    IN  half[n]

(* The hash over n leaves of the log s, from the i-th on.                  *)
Subtree(s) ==
    LET hash[n \in 1..Len(s)] ==
            [i \in 1..(Len(s) - n + 1) |->
               IF n = 1 THEN LeafHash(s[i])
               ELSE NodeHash(hash[SplitAt(n)][i], hash[n - SplitAt(n)][i + SplitAt(n)])]
    IN  hash

TreeRoot(s) == Subtree(s)[Len(s)][1]

(* The siblings of leaf m (from 1) of the log s on its way up to the root. *)
AuditPath(s, m) ==
    LET hash == Subtree(s)
        path[n \in 1..Len(s)] ==
            [i \in 1..(Len(s) - n + 1) |->
               IF n = 1 THEN <<>>
               ELSE LET mid == i + SplitAt(n)
                    IN  IF m < mid
                          THEN Append(path[SplitAt(n)][i], hash[n - SplitAt(n)][mid])
                          ELSE Append(path[n - SplitAt(n)][mid], hash[SplitAt(n)][i])]
    IN  path[Len(s)][1]

-----------------------------------------------------------------------------
(* The walk of verify_inclusion_proof: hash is what the leaf and the       *)
(* siblings so far come to, fn its position among the subtrees of its      *)
(* level, sn the position of the last of them.                             *)

(* Variant of Lifted: a last subtree has a sibling, as in a full tree.     *)
Unlifted(p) == p

(* The last subtree of a level, when it is a left child, has no sibling:   *)
(* its place at the first level where it is a right child.                 *)
Lifted(p) ==
    LET up[q \in 0..p] == IF q % 2 = 1 \/ q = 0 THEN q ELSE up[q \div 2]
    IN  up[p]

WalkStep(w, sibling) ==
    LET right == w.fn % 2 = 1 \/ w.fn = w.sn
        parent(p) == IF w.fn = w.sn THEN Lifted(p) \div 2 ELSE p \div 2
    IN  IF ~w.ok \/ w.sn = 0 THEN [w EXCEPT !.ok = FALSE]
        ELSE [ok |-> TRUE,
              fn |-> parent(w.fn),
              sn |-> parent(w.sn),
              hash |-> IF right THEN NodeHash(sibling, w.hash)
                                ELSE NodeHash(w.hash, sibling)]

(* What the walk has come to after each of the siblings.                   *)
Walk(leaf, index, size, proof) ==
    LET after[k \in 0..Len(proof)] ==
            IF k = 0 THEN [ok |-> TRUE, fn |-> index, sn |-> size - 1, hash |-> LeafHash(leaf)]
            ELSE WalkStep(after[k - 1], proof[k])
    IN  after

(* verify_inclusion_proof, index from 0                                    *)
VerifyInclusion(leaf, index, size, root, proof) ==
    /\ index < size
    /\ LET end == Walk(leaf, index, size, proof)[Len(proof)]
       IN  end.ok /\ end.sn = 0 /\ end.hash = root

(* What the walk must decide of the log s: the audit path of an entry      *)
(* proves that entry at its place, and nothing else at any place; one      *)
(* sibling too few or too many proves nothing.                             *)
DecidesInclusion(s) ==
    LET n == Len(s)
        root == TreeRoot(s)
    IN  \A m \in 1..n :
          LET path == AuditPath(s, m)
          IN  /\ \A i, j \in 1..n :
                    (i = m \/ j = m) =>
                      (VerifyInclusion(s[j], i - 1, n, root, path) <=> (i = m /\ s[j] = s[m]))
              /\ ~VerifyInclusion(s[m], n, n, root, path)
              /\ ~VerifyInclusion(s[m], m - 1, n, root, Append(path, root))
              /\ path # <<>> => ~VerifyInclusion(s[m], m - 1, n, root, Front(path))
=============================================================================
