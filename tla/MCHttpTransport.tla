-------------------------- MODULE MCHttpTransport ----------------------------
(* Instances of HttpTransport for TLC: initializations of two owners, requests  *)
(* on the session they lead to, and calls without a session.                    *)
EXTENDS HttpTransport

CONSTANTS init1, init2, call1, call2, call3, call4, note1, del1, s1, s2, alice, bob

MCOwnerOf == [r \in Requests |-> IF r \in {init2, call3} THEN bob ELSE alice]
MCTarget == [r \in Requests |-> IF r \in {init1, init2, call3, call4} THEN None ELSE s1]

MCIdOf == [r \in Calls \cup Notifies |-> 1]

\* Calls with one id on one session, and a notification that cancels one; calls with
\* that id without a session, of another caller and of two; a session deleted, or
\* expired, while a request uses it and another initialization waits for capacity.
MCScenarios == {{init1, call1, call2}, {init1, call1, note1}, {init1, call1, call3},
                {call3, call4}, {init1, init2, del1}}
=============================================================================
