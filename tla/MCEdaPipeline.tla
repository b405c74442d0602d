---------------------------- MODULE MCEdaPipeline ----------------------------
(* Instances of EdaPipeline.  The daemon serves two Telegram chats; or it  *)
(* serves one chat while a CLI session runs in a process of its own.       *)
EXTENDS EdaPipeline, TLC

CONSTANTS rCli, rTg, rTg2, cli, daemon

DaemonHome == (rTg :> daemon) @@ (rTg2 :> daemon)
SharedHome == (rCli :> cli) @@ (rTg :> daemon)
==============================================================================
