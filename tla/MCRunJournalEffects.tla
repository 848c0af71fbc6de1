------------------------ MODULE MCRunJournalEffects ------------------------
(* One run with a build it may create and cancel: every order of intents,  *)
(* receipts, checkpoints, stops, faults, crashes and recoveries of it.     *)
EXTENDS RunJournal

MCIntentKeys ==
  {[step |-> 0, kind |-> "build_create", resource |-> "-"],
   [step |-> 0, kind |-> "build_cancel", resource |-> "a"]}
=============================================================================
