----------------------------- MODULE MCPrograms -----------------------------
(***************************************************************************)
(* The programs of the repository beside the running server: the start of  *)
(* the shim, the encoding of documents with clientutil, keygen's keys and  *)
(* the development key server.  They share no state, so that each          *)
(* behaviour is one of one of them, and the others stay in an initial      *)
(* state.                                                                  *)
(***************************************************************************)
EXTENDS MCStartup, MCDcode, OfflineKey, KeyServer

VARIABLE part

programVars == <<part, startVars, dcodeVars, offlineVars, serverVars>>

Some(S) == CHOOSE x \in S : TRUE

ProgramInit ==
  /\ part \in {"startup", "dcode", "offline", "keyserver"}
  /\ (part # "startup") => (config = Base /\ machine = Some(Machines))
  /\ (part # "dcode") => (cert = Some(Certs))
  /\ (part # "offline") => (now = 0)
  /\ StartupInit /\ DcodeInit /\ OfflineInit /\ ServerInit

ProgramNext ==
  /\ UNCHANGED part
  /\ \/ part = "startup" /\ StartupNext
          /\ UNCHANGED <<dcodeVars, offlineVars, serverVars>>
     \/ part = "dcode" /\ DcodeNext
          /\ UNCHANGED <<startVars, offlineVars, serverVars>>
     \/ part = "offline" /\ OfflineNext
          /\ UNCHANGED <<startVars, dcodeVars, serverVars>>
     \/ part = "keyserver" /\ ServerNext
          /\ UNCHANGED <<startVars, dcodeVars, offlineVars>>

ProgramSpec == ProgramInit /\ [][ProgramNext]_programVars

=============================================================================
