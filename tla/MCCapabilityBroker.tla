-------------------------- MODULE MCCapabilityBroker --------------------------
(* An instance of CapabilityBroker for TLC.  Each group of permissions     *)
(* puts one part of the broker at its limits.                              *)
EXTENDS CapabilityBroker

FewTargets ==
    {<<"work", "x">>, <<"work", ".", "x">>, <<"work", "sub", "x">>, <<"work">>,
     <<"work", "..", "x">>,
     <<"work", "", "x">>, <<"x">>, <<".", "work", "x">>}

FewSizes == {0, 2}

Work   == {<<"work">>}
Nested == {<<"work">>, <<"work", "sub">>}
Rooted == {<<>>, <<"work">>}
Dotted == {<<".">>, <<".", "work">>}

Nothing ==
    [fs |-> FALSE, readRoots |-> {}, writeRoots |-> {}, maxBytes |-> 0, maxFiles |-> 0,
     http |-> FALSE, allowOrigins |-> {}, denyOrigins |-> {}, maxRequests |-> 0,
     env |-> FALSE, allowKeys |-> {}]

\* Files: lists of roots that agree, nest or hold "/" or "/.", then quotas.  With
\* sizes of 2, a quota of 4 is met exactly and 5, the largest number, never.
FileConfigs ==
    {[Nothing EXCEPT !.fs = TRUE, !.readRoots = p[1], !.writeRoots = p[2], !.maxBytes = 4,
                     !.maxFiles = 1]
        : p \in {<<Work, Work>>, <<Work, Nested>>, <<Rooted, Rooted>>, <<Rooted, Nested>>,
                 <<{<<".">>}, Dotted>>}}
    \cup {[Nothing EXCEPT !.fs = TRUE, !.readRoots = Nested, !.writeRoots = Work,
                          !.maxBytes = q[1], !.maxFiles = q[2]]
              : q \in {<<0, 0>>, <<0, 1>>, <<4, 0>>, <<5, 0>>}}

\* Requests and variables.
OtherConfigs ==
    {[Nothing EXCEPT !.http = TRUE, !.allowOrigins = {"o1"}, !.denyOrigins = d, !.maxRequests = m,
                     !.env = TRUE, !.allowKeys = {"k1"}] : d \in {{}, {"o1"}}, m \in {0, 1}}

FewConfigs == {Nothing} \cup FileConfigs \cup OtherConfigs
===============================================================================
