---------------------------- MODULE MCDiscovery ----------------------------
(***************************************************************************)
(* An instance of Discovery for TLC: the viewer 1 and the candidates 2 and *)
(* 3, who tie.  A year has four ticks; 2 has a birthday at tick 84, after  *)
(* which nobody's age range holds them.                                    *)
(***************************************************************************)
EXTENDS Discovery

Set(p) == [kind |-> "set", place |-> p]
MCProfileInputs ==
  {[location |-> Set(0), taste |-> {"x"}, onboarded |-> TRUE],
   [location |-> [kind |-> "keep"], taste |-> {}, onboarded |-> TRUE],
   [location |-> [kind |-> "clear"], taste |-> {"x"}, onboarded |-> FALSE]}

MCPrefInputs ==
  {[minAge |-> 18, maxAge |-> 20, km |-> 1, genders |-> NoGenders],
   [minAge |-> 18, maxAge |-> 20, km |-> 2, genders |-> {"m"}]}

MCSetup ==
  [u \in Users |->
     [profile |-> [made |-> TRUE, place |-> IF u = 1 THEN 0 ELSE 1, taste |-> {"x"},
                   onboarded |-> TRUE],
      prefs   |-> [made |-> TRUE, minAge |-> 18, maxAge |-> 20, km |-> 2,
                   genders |-> {"f", "m"}]]]

\* The viewer has no match yet, or one with 3.
MCOldMatches == {{}, {{1, 3}}}

MCGenderOf == [u \in Users |-> IF u = 1 THEN "f" ELSE "m"]
MCBornAt   == [u \in Users |-> IF u = 2 THEN 0 ELSE 2]
=============================================================================
