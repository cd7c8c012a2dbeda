----------------------------- MODULE MCBlackboard -----------------------------
(***************************************************************************)
(* Small instances of Blackboard.  The contributions are chosen so that     *)
(* every outcome of every operation occurs: rules and facts resolve to the  *)
(* same word by different words, in other to a different one; salted lives  *)
(* under another profile, strayed in a scope with no sector.  Rules fill    *)
(* the fibers before the log is full; facts claim nothing, so that all      *)
(* three places can hold equivalent contributions and a class grows by two  *)
(* unions.                                                                  *)
(***************************************************************************)
EXTENDS Blackboard

CONSTANTS p, q, s1, s2

MCCoord == {p, q}

rules == [source |-> s1, car |-> {0}, cdr |-> {}, board |-> {p, q},
          profile |-> {0}, scope |-> 0]
facts == [source |-> s2, car |-> {}, cdr |-> {30}, board |-> {},
          profile |-> {0}, scope |-> 0]
strayed == [rules EXCEPT !.scope = 9, !.board = {q}]
salted == [rules EXCEPT !.profile = {15}, !.board = {}]
other == [facts EXCEPT !.car = {5}]

\* Every outcome of injection, CONS and validation.
MCInputs == {rules, facts, strayed, salted, other}

\* For the refinement, without the difference in profile.
MCChain == {rules, facts, strayed, other}

\* Enough for a witness of one pair to be used for another.
MCSalted == {rules, salted, other}

MCProfiles == {{0}}
=============================================================================
