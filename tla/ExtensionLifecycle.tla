-------------------------- MODULE ExtensionLifecycle --------------------------
(***************************************************************************)
(* What the bootstrap promises of the extensions, whatever it does inside: *)
(* each extension goes from absent over matched and loaded to enabled, one *)
(* step at a time; nobody is loaded before all are matched, and nobody is  *)
(* enabled before all are loaded.  The bootstrap may give up at any point  *)
(* and then leaves every extension where it is.                            *)
(***************************************************************************)
CONSTANT Extensions            \* <<kind, name>> of every possible extension

VARIABLES
  life,                        \* extension -> how far it has come
  over                         \* the bootstrap has ended, well or badly

Init ==
  /\ life = [e \in Extensions |-> "absent"]
  /\ over = FALSE

In(stage) == {e \in Extensions : life[e] = stage}

Advance(e, from, to) ==
  /\ ~over
  /\ life[e] = from
  /\ life' = [life EXCEPT ![e] = to]
  /\ UNCHANGED over

Match(e) ==
  /\ In("loaded") = {} /\ In("enabled") = {}
  /\ Advance(e, "absent", "matched")

Load(e) ==
  /\ In("enabled") = {}
  /\ Advance(e, "matched", "loaded")

Enable(e) ==
  /\ In("matched") = {}
  /\ Advance(e, "loaded", "enabled")

End == ~over /\ over' = TRUE /\ UNCHANGED life

Next ==
  \/ \E e \in Extensions : Match(e) \/ Load(e) \/ Enable(e)
  \/ End

Spec == Init /\ [][Next]_<<life, over>>
=============================================================================
