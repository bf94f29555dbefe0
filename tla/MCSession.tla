------------------------------ MODULE MCSession ------------------------------
(***************************************************************************)
(* The connections of the server, in two views that share no state: one    *)
(* session in full, and the registries that all the sessions share.        *)
(***************************************************************************)
EXTENDS Session, Registry

VARIABLE focus      \* the view that this behaviour is about

MCQueries ==
    {<<"bad">>, <<>>, <<"begin">>, <<"do", "copyin">>, <<"lock", "end">>, <<"copyout", "empty">>}
MCBoundQueries == {<<"bad">>, <<"empty", "begin">>, <<"lock">>}

connectionVars == <<focus, sessionVars, registryVars>>

InSession(A) == focus = "session" /\ A /\ UNCHANGED <<focus, registryVars>>
InRegistry(A) == focus = "registry" /\ A /\ UNCHANGED <<focus, sessionVars>>

ConnectionInit == focus \in {"session", "registry"} /\ SessionInit /\ RegistryInit

ConnectionNext == InSession(SessionNext) \/ InRegistry(RegistryNext)

ConnectionSpec ==
    /\ ConnectionInit /\ [][ConnectionNext]_connectionVars
    /\ WF_connectionVars(InSession(ServerStep))
    /\ \A p \in Pids : SF_connectionVars(InRegistry(GoesOn(p)))
=============================================================================
