-------------------------- MODULE StandaloneRuntime ---------------------------
(***************************************************************************)
(* A standalone runtime that comes up (EncryptionStartup) and its servers' *)
(* SDK clients (ProxyConfig): initializeRuntime of standalone.ts makes one *)
(* manager for all servers and gives each of them sdkInitializator, which  *)
(* it may call as long as the runtime runs.                                *)
(***************************************************************************)
EXTENDS EncryptionStartup, ProxyConfig

varsAll == <<vars, proxyVars>>

InitAll == Init /\ InitProxy

Startup == Next /\ UNCHANGED proxyVars

Client(c) == runtime = "running" /\ sdkInitializator(c) /\ UNCHANGED vars

Machine == runtime = "running" /\ MachineChanges /\ UNCHANGED vars

NextAll == Startup \/ Machine \/ \E c \in Clients : Client(c)

SpecAll == InitAll /\ [][NextAll]_varsAll

(* That of the start: a client is created when a server wants one.         *)
FairSpecAll == SpecAll /\ Fairness

TypeOKAll == TypeOK /\ ProxyOK

=============================================================================
