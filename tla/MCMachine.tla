---- MODULE MCMachine ----
(***************************************************************************)
(* What the processes of one machine share - the daemon's files, its       *)
(* sessions, the settings and a vendor's tokens - each by itself: a        *)
(* behaviour runs one part, and the others stand still.                    *)
(***************************************************************************)
EXTENDS DaemonFiles, DaemonSessions, Login, VendorConnect

VARIABLE part

Init ==
    /\ part \in {"files", "sessions", "login", "connect"}
    /\ FilesInit /\ SessionsInit /\ LoginInit /\ VendorInit
    /\ part # "login" =>
          /\ command = [p \in Cli |-> "start"]
          /\ credentialsFile = NoOne /\ settingsFile = DefaultSettings /\ lockFile = NoOne
    /\ part # "connect" => vendor = "codex"

Next ==
    \/ /\ part = "files" /\ FilesNext
       /\ UNCHANGED <<part, daemonSessionsVars, loginVars, vendorVars>>
    \/ /\ part = "sessions" /\ SessionsNext
       /\ UNCHANGED <<part, daemonFilesVars, loginVars, vendorVars>>
    \/ /\ part = "login" /\ LoginNext
       /\ UNCHANGED <<part, daemonFilesVars, daemonSessionsVars, vendorVars>>
    \/ /\ part = "connect" /\ VendorNext
       /\ UNCHANGED <<part, daemonFilesVars, daemonSessionsVars, loginVars>>

\* FilesFairSpec, SessionsFairSpec and VendorFairSpec.
Fairness ==
    /\ WF_daemonFilesVars(part = "files" /\ Minute)
    /\ \A p \in Process :
          /\ WF_daemonFilesVars(part = "files" /\ Run(p))
          /\ WF_daemonFilesVars(part = "files" /\ Heartbeat(p))
          /\ WF_daemonFilesVars(part = "files" /\ ForcedExit(p))
    /\ \A p \in SessionProcess : WF_daemonSessionsVars(part = "sessions" /\ ChildExited(p))
    /\ WF_daemonSessionsVars(part = "sessions" /\ SessionsHeartbeat)
    /\ \A p \in Connector : WF_vendorVars(part = "connect" /\ Proceeds(p))

Spec ==
    /\ Init
    /\ [][Next]_<<part, daemonFilesVars, daemonSessionsVars, loginVars, vendorVars>>
    /\ Fairness
====
