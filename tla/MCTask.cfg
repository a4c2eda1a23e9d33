SPECIFICATION FairSpec
CONSTANT MaxPid = 4
INVARIANTS ScheduledOnce ProcessTree RootedAtInitproc PidsAccounted SomethingToRun WaitpidAssertion
PROPERTIES DroppedByParentOnly WaitpidAnswers ReadyRuns OrphansReaped
