--------------------------------- MODULE Vault ---------------------------------
(***************************************************************************)
(* The vault file, ~/.ada/vault, and the commands that use it.  Each       *)
(* process loads the file once into its own dictionary, and every set or   *)
(* delete writes the whole dictionary over the file in place.  The key of  *)
(* the file is derived from the machine, so a file from elsewhere does not *)
(* decrypt; neither does one whose write was cut short.                    *)
(*                                                                         *)
(* promised, what the completed commands asked for, and mishap, whether a  *)
(* write was cut short, a foreign file was put in place or two processes   *)
(* overlapped, are history: no action reads them.                          *)
(***************************************************************************)

CONSTANTS
    Processes,      \* the commands that may run at once
    SecretNames,    \* the keys of the dictionary
    SecretValues,   \* what they hold
    Nothing         \* a name that is not in the dictionary

VARIABLES
    file,       \* [kind], with data when kind is "readable"
    procs,      \* each process: "off", or its dictionary and what it is doing
    promised,   \* what the last completed commands set
    mishap      \* whether anything went wrong so far

vaultVars == <<file, procs, promised, mishap>>

Empty == [n \in SecretNames |-> Nothing]
Off == [doing |-> "off"]
Readable == file.kind = "readable"

\* _load: a file that is missing or cannot be read is an empty vault.
Loaded == IF Readable THEN file.data ELSE Empty

GetVault(p) ==
    /\ procs[p] = Off
    /\ procs' = [procs EXCEPT ![p] = [doing |-> "ready", data |-> Loaded]]
    /\ mishap' = (mishap \/ \E q \in Processes : procs[q] # Off)
    /\ UNCHANGED <<file, promised>>

\* set and delete: the dictionary at once, then the file is truncated ...
\* Mutant of Changed: the dictionary holds the new secret alone.
ChangedAlone(data, n, v) == [Empty EXCEPT ![n] = v]
Changed(data, n, v) == [data EXCEPT ![n] = v]

BeginSave(p, n, v) ==
    /\ procs[p].doing = "ready"
    /\ procs' = [procs EXCEPT ![p] =
         [doing |-> "saving", data |-> Changed(@.data, n, v), name |-> n]]
    /\ file' = [kind |-> "unreadable"]
    /\ UNCHANGED <<promised, mishap>>

\* ... and then written.
FinishSave(p) ==
    LET d == procs[p] IN
    /\ d.doing = "saving"
    /\ file' = [kind |-> "readable", data |-> d.data]
    /\ promised' = [promised EXCEPT ![d.name] = d.data[d.name]]
    /\ procs' = [procs EXCEPT ![p] = [doing |-> "ready", data |-> d.data]]
    /\ UNCHANGED mishap

\* The process ends, or is killed in the middle of a write.
Exit(p) ==
    /\ procs[p] # Off
    /\ procs' = [procs EXCEPT ![p] = Off]
    /\ mishap' = (mishap \/ procs[p].doing = "saving")
    /\ UNCHANGED <<file, promised>>

\* The home directory is moved to another machine, or ada is reinstalled
\* elsewhere: the fingerprint changes.
NewFingerprint ==
    /\ Readable
    /\ file' = [kind |-> "unreadable"]
    /\ mishap' = TRUE
    /\ UNCHANGED <<procs, promised>>

VaultInit ==
    /\ file = [kind |-> "missing"]
    /\ procs = [p \in Processes |-> Off]
    /\ promised = Empty
    /\ mishap = FALSE

VaultNext ==
    \/ NewFingerprint
    \/ \E p \in Processes :
         \/ GetVault(p) \/ FinishSave(p) \/ Exit(p)
         \/ \E n \in SecretNames, v \in SecretValues \cup {Nothing} : BeginSave(p, n, v)

VaultSpec == VaultInit /\ [][VaultNext]_vaultVars

(* As long as one command runs at a time and no write is cut short, the     *)
(* file holds every secret ever set and not changed since, across any       *)
(* number of commands: each loads what the others left.  The three mishaps  *)
(* are exactly what the in-place write and the machine key leave open.      *)
SecretsKept ==
    ~mishap /\ (\A p \in Processes : procs[p] = Off \/ procs[p].doing = "ready")
        => Loaded = promised
=============================================================================
