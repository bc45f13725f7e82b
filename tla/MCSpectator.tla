---------------------------- MODULE MCSpectator ----------------------------
(* Instances of Spectator for TLC. *)
EXTENDS Spectator, TLC

CONSTANTS a, b

View(status, inputs) == [status |-> status, inputs |-> inputs]
Scenario(views, agreed, delay, rewind) ==
    [views |-> views, mesh |-> agreed, stream_delay |-> delay, rewind |-> rewind,
     max_frames_behind |-> 1, catchup_speed |-> 2, ahead |-> BufferSize]
Agreed(inputs) == [i \in DOMAIN inputs |-> {inputs[i]}]

\* The slot is dropped at frame 1 and live again from frame 3 on.
Reopened == <<a, b, b, a>>
ReopenedViews == <<View(Connected(0), <<a, b>>), View(DroppedAt(1, 1), <<a, b, b>>),
                   View(Connected(2), Reopened)>>
BothReopen == Scenario(1 :> ReopenedViews @@ 2 :> ReopenedViews, Agreed(Reopened), 1, FALSE)

\* The hosts freeze the slot at different frames; the second freezes lower.
Lowered == Scenario(
    1 :> <<View(Connected(0), <<a, b>>), View(DroppedAt(1, 1), <<a, b, b>>), View(DroppedAt(0, 1), <<a, a, a>>)>>
        @@ 2 :> <<View(Connected(0), <<a>>), View(DroppedAt(0, 1), <<a, a, a>>)>>,
    <<{a}, {a, b}, {a, b}>>, 0, FALSE)

\* One host; the viewer seeks.
Rewound == Scenario(1 :> <<View(Connected(0), <<a, b, a, b>>)>>, Agreed(<<a, b, a, b>>), 1, TRUE)

MCScenarios == {BothReopen, Lowered, Rewound}

\* The second host runs ahead of a first one that has gone silent.
Unbounded == [Scenario(1 :> <<View(Connected(0), <<a, a, a>>)>> @@ 2 :> <<View(Connected(0), <<a, a, a>>)>>,
                       Agreed(<<a, a, a>>), 0, FALSE) EXCEPT !.ahead = 3]
MCSilentPrimary == {Unbounded}
=============================================================================
