--------------------------- MODULE MCRunLifecycle ---------------------------
(* The wiring of main.go: who is started where, by whom, and how.          *)
EXTENDS RunLifecycle

MCScopes == {Root, SenderScope, TrackerScope}
MCTasks  == {body, sender, tracker, generator, dispatcher, sendTask, headLoop, subWatch, reapLoop}

MCScopeOf == [t \in MCTasks |->
  CASE t \in {dispatcher, sendTask}         -> SenderScope
    [] t \in {headLoop, subWatch, reapLoop} -> TrackerScope
    [] OTHER                                -> Root]
MCBody == [s \in MCScopes |->
  CASE s = SenderScope  -> dispatcher
    [] s = TrackerScope -> headLoop
    [] OTHER            -> body]
MCBackground == {sender, tracker, generator, subWatch}
MCHost == [s \in MCScopes \ {Root} |-> IF s = SenderScope THEN sender ELSE tracker]

\* A rate-limited run with a deadline, and a run that writes blocks and tracks.
MCProfiles == {{"timed", "limited"}, {"timed", "tracking", "writing"}}
MCTimedLimited == {{"timed", "limited"}}

\* A run that tracks receipts, without a duration.
MCTracked == {{"tracking"}}
=============================================================================
