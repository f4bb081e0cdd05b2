---------------------------- MODULE MCOnboarding ----------------------------
(* An instance of Onboarding for TLC. *)
EXTENDS Onboarding, TLC

CONSTANTS r1, r2, s1, s2

\* Nothing, all but one thing, everything.
SomeHandedIn == {{}, Item \ {"BANK"}, Item}
=============================================================================
