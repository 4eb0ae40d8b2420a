------------------------- MODULE MC_PasswordPrincipal -------------------------
(* Two concurrent sign-ups.  "a"/"A" and "b"/"B" are login IDs that the    *)
(* normalizer maps to the same unique key (an e-mail in two cases); "x"   *)
(* fails normalization.  r1 sends <<a, b>>; r2 sends <<B, A>> (keys in the *)
(* opposite order: the two transactions can wait on each other) or <<A, x>> *)
(* (fails after inserting A).  Two password changes of r1's user, to p1   *)
(* and back to p0, lock its two rows in either order; a login with "A"    *)
(* may rehash r1's row of key a.                                           *)
EXTENDS PasswordPrincipal, TLC

CONSTANTS r1, r2, c1, c2, l1, p0, p1

MCNormalize == ("a" :> "a") @@ ("A" :> "a") @@ ("b" :> "b") @@ ("B" :> "b")
               @@ ("x" :> NULL)

MCCandidates == (r1 :> {<<"a", "b">>}) @@ (r2 :> {<<"B", "A">>, <<"A", "x">>})

(* The legacy provider does not normalize: the key is the raw login ID,   *)
(* so r2 sends raw IDs equal to r1's to collide with it.                   *)
MCCandidatesLegacy ==
    (r1 :> {<<"a", "b">>}) @@ (r2 :> {<<"b", "a">>, <<"a", "x">>})

MCChangeTarget == [c \in {c1, c2} |-> r1]

MCNewPassword == (c1 :> p1) @@ (c2 :> p0)

MCLoginID == l1 :> "A"

====
