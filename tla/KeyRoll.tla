------------------------------ MODULE KeyRoll ------------------------------
(***************************************************************************)
(* Signing keys that released apps carry and can rotate (keyroll.rs).      *)
(*                                                                         *)
(* A key is its place in the sequence of rotations, 0 the baked one.  A    *)
(* signed artifact is a record with the key that signed it (by) and the    *)
(* rotation it carries (rot, 0 for none).  Signatures are taken to be      *)
(* unforgeable: a rotation that does not verify under the recovery key, or *)
(* names another purpose, is one of sequence 0.                            *)
(***************************************************************************)
EXTENDS Integers

NoArtifact == [by |-> -1, rot |-> 0]

\* current_key: the key to verify with, given the sequence learned so far.
CurrentKey(learned, rot) == IF rot > learned THEN rot ELSE learned

\* SignedDirectory::verify and verified_payload: the artifact bears the
\* signature of the current key.
Verifies(a, learned) == a.by = CurrentKey(learned, a.rot)

\* The Trust to remember: the rotation that moved the key, if it did.
Moved(a, learned) == a.rot > learned
=============================================================================
