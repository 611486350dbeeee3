------------------------------ MODULE MCDataRoot ------------------------------
(* Two components of a data root on small instances, side by side: archives and      *)
(* diagnostic logs share no state, and a behaviour is one of the one or of the other. *)
EXTENDS ProjectArchive, TLC

CONSTANTS Processes, Projects, Shapes, Policies, DefaultPolicy, PageSize, MaxVariables,
          MaxLogs, MaxDay, MaxCrashes

VARIABLES part, today, logs, written, policies, processes, inForce, listing, crashes

Logs == INSTANCE LogRetention

ASSUME LogConstants == Logs!Constants

logVars == <<today, logs, written, policies, processes, inForce, listing, crashes>>

Shape(level, priority, size) == [level |-> level, priority |-> priority, size |-> size]
Keep(debug, info, warn, quota) == [debug |-> debug, info |-> info, warn |-> warn, quota |-> quota]

\* A checkpoint's debug row, a long message's, and a P1 row, which is kept.
SmallShapes == {Shape("debug", "p4", 1), Shape("info", "p3", 2), Shape("debug", "p1", 1)}

Defaults == Keep(0, 1, 1, 9)
SmallPolicies == {Keep(1, 1, 1, 2)}

DataRootInit == part \in {"logs", "archive"} /\ Init /\ Logs!Init

DataRootNext ==
    /\ UNCHANGED part
    /\ \/ part = "archive" /\ Next /\ UNCHANGED logVars
       \/ part = "logs" /\ Logs!Next /\ UNCHANGED vars

DataRootSpec ==
    /\ DataRootInit /\ [][DataRootNext]_<<part, vars, logVars>>
    /\ \A p \in Processes : WF_logVars(part = "logs" /\ Logs!Start(p))
    /\ \A x \in Roots : WF_vars(part = "archive" /\ Work(x))
    /\ \A c \in Commands : SF_vars(part = "archive" /\ SendAgain(c))

\* The typing of both.
DataRootTypeOK == TypeOK /\ Logs!TypeOK

\* The properties of LogRetention; processes start in the behaviours that are about logs.
PagesComplete == Logs!PagesComplete
SweptByAPolicy == Logs!SweptByAPolicy
DataRootOpens == part = "logs" => Logs!Opens
===========================================================================
