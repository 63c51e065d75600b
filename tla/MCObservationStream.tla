------------------------ MODULE MCObservationStream ---------------------------
EXTENDS ObservationStream
OneTask == [r \in Runs |-> "task"]
SomeFrames == {"command.started", "turn.completed"}
=============================================================================
