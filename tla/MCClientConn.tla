---------------------------- MODULE MCClientConn ----------------------------
\* Instances of ClientConn.
EXTENDS ClientConn

Each(n) == [m \in Manager |-> n]

\* A connection that is lost and renewed, with a message typed and an envelope
\* answered meanwhile, or with two envelopes whose order shows.
Renew == [keys |-> {}, names |-> {TRUE}, managers |-> 2, dials |-> Each(2), envelopes |-> 1, typed |-> 1]
Order == [Renew EXCEPT !.names = {FALSE}, !.envelopes = 2, !.typed = 0]

\* A manager that /back closes, with envelopes or with a second dial; and one
\* that Ctrl+R replaces by another, which cannot get through.
Left == [Renew EXCEPT !.keys = {"/back"}, !.names = BOOLEAN, !.managers = 3, !.dials = Each(1),
                      !.envelopes = 2, !.typed = 0]
Redial == [Left EXCEPT !.names = {FALSE}, !.dials = Each(2), !.envelopes = 0]
Replaced == [Redial EXCEPT !.keys = {"ctrl+r"}, !.dials = [Each(1) EXCEPT ![3] = 0]]

ConnPlans == {Renew, Order, Left, Redial, Replaced}

\* One Ctrl+R.
CtrlRPlans == {[Left EXCEPT !.keys = {"ctrl+r"}, !.envelopes = 1]}
=============================================================================
