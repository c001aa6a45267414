---------------------------- MODULE MCExternalIo ----------------------------
(* Small programs for ExternalIo. *)
EXTENDS ExternalIo

\* A coordinator on lane 0, a task that yields, joins it and then reads, and
\* two reads of a third task; two coordinators of one lane, with a task that
\* is refused an operation or joins one of them.  The second scope is short.
MCScripts == << {
    << <<"cpu", "accel">>, <<"yield", "join", "io">>, <<"io", "io">> >>,
    << <<"accel">>, <<"io", "big">>, <<"cpu">> >>,
    << <<"cpu">>, <<"io", "join">>, <<"accel", "cpu">> >> },
    { << <<"accel">>, <<"io">>, <<>> >> } >>

\* A task goes on reading after an operation was refused.
ReleaseScripts == << { << <<"io", "big", "io">>, <<"io">> >> } >>

\* A task that yields after a host operation.
YieldScripts == << { << <<"io", "yield">>, <<"io">> >> } >>
=============================================================================
