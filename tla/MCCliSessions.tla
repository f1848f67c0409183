---------------------------- MODULE MCCliSessions ----------------------------
(* Two processes: one is any command with any arguments, the other one      *)
(* clears the passcodes of the same lock.  In one of the stores the other    *)
(* lock has the first one's id as its alias, in one it has no admin key.     *)
EXTENDS CliSessions

Key(lockId, mac, alias, admin) ==
  [lockId |-> lockId, mac |-> mac, alias |-> alias, admin |-> admin]

MCStores ==
  {<<>>, <<Key("20", "0A:20", "door", TRUE), Key("21", "0A:21", "gate", FALSE)>>,
   <<Key("21", "0A:21", "20", TRUE), Key("20", "0A:20", "door", TRUE)>>}

Run(name, valid, yes, target) ==
  [name |-> name, valid |-> valid, yes |-> yes, target |-> target]

Checked == {name \in DOMAIN Commands : Commands[name].checked # Nothing}

MCRuns ==
  [p \in Processes |->
     IF p = "p1"
     THEN {Run(name, TRUE, FALSE, "20") : name \in DOMAIN Commands}
          \cup {Run(name, TRUE, FALSE, "gate") : name \in {"lock", "volume", "device-info"}}
          \cup {Run("unlock", TRUE, FALSE, "0A:21")}
          \cup {Run(name, FALSE, FALSE, "20") : name \in Checked}
          \cup {Run("dump_operation_log", TRUE, FALSE, Nothing)}
     ELSE {Run("clear-passcodes", TRUE, TRUE, "20")}]
=============================================================================
