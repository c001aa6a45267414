----------------------------- MODULE MCReactor -----------------------------
(* Instances of Reactor for TLC.                                           *)
EXTENDS Reactor

R(fd) == [fd |-> fd, interest |-> {"R"}]
W(fd) == [fd |-> fd, interest |-> {"W"}]
Wait(q) == Op("wait", <<q>>, 0, FALSE)
TimedWait(q, ns, stop) == Op("timed", <<q>>, ns, stop)
Many(qs, ns, stop) == Op("many", qs, ns, stop)
Sleeps(ns) == Op("sleep", <<>>, ns, FALSE)
Parks == Op("channel", <<>>, 0, FALSE)
Stops == Op("stop", <<>>, 0, FALSE)
Closes(fd) == Op("close", <<R(fd)>>, 0, FALSE)

\* Bodies in which the ways to end a wait meet: two groups on overlapping
\* descriptors, a timed wait beside a group, a close, a stop, a channel wait,
\* and a group that does not fit the descriptor list.
MeetingBodies ==
    {[t \in 1..2 |-> IF t = 1 THEN <<Many(<<R(1), R(2)>>, 1, FALSE)>>
                     ELSE <<TimedWait(W(1), 1, FALSE), Many(<<R(2)>>, 1, FALSE)>>],
     [t \in 1..2 |-> IF t = 1 THEN <<Many(<<R(1), R(2)>>, 1, TRUE)>>
                     ELSE <<Parks, Many(<<W(1), R(2)>>, 2, TRUE), Closes(1)>>],
     [t \in 1..2 |-> IF t = 1 THEN <<TimedWait(R(1), 2, TRUE)>>
                     ELSE <<Wait(W(1)), Sleeps(1), Stops, Closes(1)>>],
     [t \in 1..2 |-> IF t = 1 THEN <<Many(<<R(1), R(2)>>, 1, FALSE)>>
                     ELSE <<Closes(1), Many(<<R(2), R(3), R(4)>>, 1, FALSE),
                            TimedWait(R(1), 1, FALSE)>>],
     [t \in 1..2 |-> IF t = 1 THEN <<Many(<<R(1), W(2)>>, 2, TRUE), Sleeps(1)>>
                     ELSE <<Many(<<W(1)>>, 1, FALSE), Stops>>]}

\* A task that waited on a channel before it waits on a socket.
ChannelThenSocket == {[t \in 1..1 |-> <<Parks, TimedWait(R(1), 1, FALSE)>>]}
============================================================================
