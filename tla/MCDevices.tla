------------------------------ MODULE MCDevices ------------------------------
(***************************************************************************)
(* The device shells for TLC.  part, which never changes, says which one a *)
(* behaviour exercises: the MMDVM modem loop with its callers and modem,   *)
(* the D-STAR runtime over the events of such a loop, the TH-D75           *)
(* controller with its radio, the byte-stream adapter, or the TM-D750's    *)
(* programming sessions.                                                   *)
(***************************************************************************)
EXTENDS ModemLoop, DstarModem, ThdRadio, StreamPump, TmdTerminal

CONSTANT Parts

VARIABLE part

\* Voice under flow control; control calls that time out; voice and a version
\* request while handles and futures are dropped and the loop is shut down.
Mixes ==
  {[ops |-> {"Header", "Data"}, calls |-> 3, drops |-> FALSE],
   [ops |-> {"SetMode", "Configure"}, calls |-> 3, drops |-> FALSE],
   [ops |-> {"Eot", "GetVersion", "Shutdown"}, calls |-> 2, drops |-> TRUE]}

\* Every kind of call; whole images are read and written, the exchanges want
\* pages that are as expected and then change one of them or both.
Only(ps) == [p \in Pages |-> IF p \in ps THEN 1 ELSE 0]
McpJob(kind, full, pages) ==
  [kind |-> kind, full |-> full, expected |-> Only({}), wants |-> Only(pages)]
EveryJob ==
  {Job(k) : k \in CatKinds}
    \cup {McpJob("read", TRUE, {}), McpJob("write", TRUE, Pages), McpJob("exchange", FALSE, Pages)}
    \cup {McpJob(k, FALSE, {1}) : k \in {"detached", "session", "unverified", "modify"}}

\* The route and Gateway pages: off or Terminal, with either subtype.
Begins ==
  {<<"usb", "offRepeater">>, <<"bt", "off">>, <<"usb", "term">>, <<"bt", "term">>, <<"usb", "termRepeater">>}
\* A startup and two attempts to restore; a backup and a write; and the two mixed.
Allowed ==
  {[prepares |-> 1, finishes |-> 2, sessions |-> 0, losses |-> 2, edits |-> 1],
   [prepares |-> 0, finishes |-> 0, sessions |-> 2, losses |-> 2, edits |-> 1],
   [prepares |-> 1, finishes |-> 1, sessions |-> 2, losses |-> 0, edits |-> 1]}

DevicesInit ==
  /\ part \in Parts
  /\ ModemLoopInit /\ DstarModemInit /\ RadioInit /\ StreamInit /\ TmdInit
  /\ part # "loop" => workload.drops              \* one workload: it is not used
  /\ part # "thd" => ~profile.streaming           \* likewise
  /\ part # "tmd" => cell.gw0 = "off" /\ allowed.prepares = 0

DevicesNext ==
  /\ \/ part = "loop" /\ ModemLoopNext /\ UNCHANGED <<dstarModemVars, radioVars, streamVars, tmdVars>>
     \/ part = "dstar" /\ DstarModemNext /\ UNCHANGED <<modemLoopVars, radioVars, streamVars, tmdVars>>
     \/ part = "thd" /\ RadioNext /\ UNCHANGED <<modemLoopVars, dstarModemVars, streamVars, tmdVars>>
     \/ part = "stream" /\ StreamNext /\ UNCHANGED <<modemLoopVars, dstarModemVars, radioVars, tmdVars>>
     \/ part = "tmd" /\ TmdNext /\ UNCHANGED <<modemLoopVars, dstarModemVars, radioVars, streamVars>>
  /\ UNCHANGED part

DevicesSpec ==
  DevicesInit
    /\ [][DevicesNext]_<<part, modemLoopVars, dstarModemVars, radioVars, streamVars, tmdVars>>
==============================================================================
