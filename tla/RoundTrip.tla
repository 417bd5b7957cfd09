------------------------------ MODULE RoundTrip ------------------------------
(***************************************************************************)
(* save-config and then load-config: what util_device_to_json(),           *)
(* group_to_json(), util_wq_to_json() and util_engine_to_json() put into   *)
(* the file, in which order, and what the tables of setters of             *)
(* accfg/config.c make of it.  One enabled device with one group, which    *)
(* has one active wq and one engine; LoadConfig has the structure of a     *)
(* file, here it is the values.  Between the two commands the device is    *)
(* disabled and configured anew, or the machine starts again, maybe with   *)
(* an older or a newer driver.                                             *)
(*                                                                         *)
(* sysfs[a] is the value of attribute a, Missing if the driver does not    *)
(* have it.  copy[a] is what the library keeps of it: a missing one is     *)
(* read as -ENOENT.  Strings (mode, type, name, driver_name, op_config)    *)
(* stand for themselves as numbers; of the modes 0 is shared, 1 dedicated. *)
(* The device is configurable (ConfigAttr has the one that is not).  The   *)
(* traffic classes of a group, which load-config would set, are no key of  *)
(* a saved file.                                                           *)
(***************************************************************************)
EXTENDS Integers, SequencesExt

CONSTANTS
    Hardware,    \* records of iax and the set of attributes it does not have
    Config,      \* the configurations: functions from attributes to numbers
    Missing

ENOENT == 2
Shared == 0
Dedicated == 1

\* The keys of a saved file in their order.
DeviceKeys == <<"read_buffer_limit", "event_log_size">>
GroupKeys  == <<"read_buffers_reserved", "use_read_buffer_limit", "read_buffers_allowed",
                "desc_progress_limit", "batch_progress_limit">>

\* Mutant: the mode comes last.
WqKeys_ModeLast ==
    <<"size", "wq_group_id", "priority", "block_on_fault", "max_batch_size",
      "max_transfer_size", "type", "name", "driver_name", "threshold", "prs_disable",
      "ats_disable", "op_config", "mode">>

WqKeys ==
    <<"mode", "size", "wq_group_id", "priority", "block_on_fault", "max_batch_size",
      "max_transfer_size", "type", "name", "driver_name", "threshold", "prs_disable",
      "ats_disable", "op_config">>
EngineKeys == <<"engine_group_id">>

\* Mutant: the groups come before the attributes of the device.
FileOrder_GroupsFirst == GroupKeys \o WqKeys \o EngineKeys \o DeviceKeys

FileOrder == DeviceKeys \o GroupKeys \o WqKeys \o EngineKeys

Attr == Range(FileOrder)

\* What devices of type iax do not have.
ReadBuffer == {"read_buffer_limit", "read_buffers_reserved", "use_read_buffer_limit",
               "read_buffers_allowed"}
\* What a driver may not know yet.
Optional == {"event_log_size", "desc_progress_limit", "batch_progress_limit",
             "driver_name", "prs_disable", "ats_disable", "op_config"}

ASSUME RoundTripAssumption ==
    /\ \A h \in Hardware : /\ DOMAIN h = {"iax", "lacks"}
                           /\ h.iax \in BOOLEAN
                           /\ h.lacks \subseteq Optional \cup ReadBuffer
                           /\ h.iax <=> ReadBuffer \subseteq h.lacks
                           /\ ~h.iax => ReadBuffer \cap h.lacks = {}
    /\ Config \subseteq [Attr -> Nat]
    /\ Missing \notin Int

VARIABLES
    hw, sysfs, copy,
    phase,       \* "save", "between", "load", "done"
    saved,       \* sysfs when it was saved
    file,        \* the keys in the file with their values
    at,          \* the next one of FileOrder (save) or of file (load)
    loadRc,
    refused      \* history: the driver refused a write for reasons of its own

roundTripVars == <<hw, sysfs, copy, phase, saved, file, at, loadRc, refused>>

On(h, c) == [a \in Attr |-> IF a \in h.lacks THEN Missing ELSE c[a]]
Read(s)  == [a \in Attr |-> IF s[a] = Missing THEN -ENOENT ELSE s[a]]

RoundTripTypeOK ==
    /\ hw \in Hardware
    /\ sysfs \in [Attr -> Nat \cup {Missing}]
    /\ copy \in [Attr -> Int]
    /\ phase \in {"save", "between", "load", "done"}
    /\ saved \in [Attr -> Nat \cup {Missing}]
    /\ file \in Seq([key : Attr, val : Int])
    /\ at \in Nat /\ at > 0
    /\ at <= (IF phase = "save" THEN Len(FileOrder) ELSE Len(file)) + 1
    /\ loadRc \in {0, -1}
    /\ refused \in BOOLEAN

\* EXTERNAL: configurations a driver can be in.  The threshold of a shared wq is
\* within its size, the progress limits are fields of two bits, prs_disable and
\* ats_disable of one.
Valid(c) ==
    /\ c["mode"] \in {Shared, Dedicated}
    /\ c["mode"] = Shared => c["threshold"] \in 1..c["size"]
    /\ \A a \in {"desc_progress_limit", "batch_progress_limit"} : c[a] \in 0..3
    /\ \A a \in {"prs_disable", "ats_disable"} : c[a] \in 0..1

RoundTripInit ==
    /\ hw \in Hardware
    /\ \E c \in Config : Valid(c) /\ sysfs = On(hw, c)
    /\ copy = Read(sysfs)
    /\ phase = "save"
    /\ saved = sysfs
    /\ file = <<>> /\ at = 1 /\ loadRc = 0
    /\ refused = FALSE

-----------------------------------------------------------------------------
(* save-config *)

\* The keys that are left out when the library has no value for them.
OnlyIfRead == {"event_log_size", "desc_progress_limit", "batch_progress_limit",
               "wq_group_id", "priority", "prs_disable", "engine_group_id"}

\* Whether a key is saved.
Saves(a) ==
    /\ a \in ReadBuffer => ~hw.iax
    /\ a \in OnlyIfRead => copy[a] >= 0
    /\ a \in {"driver_name", "op_config"} => sysfs[a] # Missing

\* The keys are put into the file one after the other ...
SaveKey ==
    /\ phase = "save" /\ at <= Len(FileOrder)
    /\ LET a == FileOrder[at]
       IN  file' = IF Saves(a) THEN Append(file, [key |-> a, val |-> copy[a]]) ELSE file
    /\ at' = at + 1
    /\ UNCHANGED <<hw, sysfs, copy, phase, saved, loadRc, refused>>

\* ... and then it is written.
SaveEnd ==
    /\ phase = "save" /\ at > Len(FileOrder)
    /\ phase' = "between" /\ at' = 1
    /\ UNCHANGED <<hw, sysfs, copy, saved, file, loadRc, refused>>

\* The device is disabled and configured anew, maybe by a machine started with
\* another driver; load-config scans it.
Reconfigure ==
    /\ phase = "between"
    /\ hw' \in {h \in Hardware : h.iax = hw.iax}
    /\ \E c \in Config : Valid(c) /\ sysfs' = On(hw', c)
    /\ copy' = Read(sysfs')
    /\ phase' = "load"
    /\ UNCHANGED <<saved, file, at, loadRc, refused>>

-----------------------------------------------------------------------------
(* load-config: configure_json_value() for the next key *)

AtKey == phase = "load" /\ at <= Len(file)
key == file[at].key
val == file[at].val

GoOn == at' = at + 1 /\ UNCHANGED <<phase, loadRc>>
Abort == phase' = "done" /\ loadRc' = -1 /\ UNCHANGED at

\* The is_writable functions of the tables.
Writable(a, v) ==
    CASE a = "use_read_buffer_limit" -> copy["read_buffer_limit"] # 0
      [] a \in {"read_buffers_reserved", "read_buffers_allowed"} -> v # -1
      [] a \in {"desc_progress_limit", "batch_progress_limit"} ->
           v \in 0..3 /\ copy[a] >= 0
      [] a = "threshold" -> sysfs["mode"] # Dedicated
      [] a \in {"prs_disable", "ats_disable"} -> v \in 0..1 /\ copy[a] >= 0
      [] OTHER -> TRUE

\* The attributes whose absence the setters forgive: they look for the file of
\* the one with access(), and take ENOENT for the other as done.
Forgiven == {"event_log_size", "driver_name"}

\* A key that is passed over: the read buffers of an iax group, what is not
\* writable, and what the driver need not have.
PassedOver ==
    \/ key \in Range(GroupKeys) \cap ReadBuffer /\ hw.iax
    \/ ~Writable(key, val)
    \/ key \in Forgiven /\ sysfs[key] = Missing

\* group_json_set_val() takes no negative values.
Negative == key \in Range(GroupKeys) /\ val < 0

LoadSkip ==
    /\ AtKey /\ ~Negative /\ PassedOver
    /\ GoOn
    /\ UNCHANGED <<hw, sysfs, copy, saved, file, refused>>

\* EXTERNAL: what the driver takes.  The threshold is for a shared wq and not
\* more than the size of the wq; a group can only use a limit the device has.
DriverTakes(a, v) ==
    /\ sysfs[a] # Missing
    /\ a = "threshold" => sysfs["mode"] = Shared /\ v \in 1..sysfs["size"]
    /\ a = "use_read_buffer_limit" => sysfs["read_buffer_limit"] # 0

\* The setter writes the attribute and keeps the value; of op_config the
\* library has no copy.
LoadWrite ==
    /\ AtKey /\ ~Negative /\ ~PassedOver
    /\ DriverTakes(key, val)
    /\ sysfs' = [sysfs EXCEPT ![key] = val]
    /\ copy' = IF key = "op_config" THEN copy ELSE [copy EXCEPT ![key] = val]
    /\ GoOn
    /\ UNCHANGED <<hw, saved, file, refused>>

\* The value is not written: it is negative or not one the driver takes ...
LoadInvalid ==
    /\ AtKey
    /\ Negative \/ (~PassedOver /\ ~DriverTakes(key, val))
    /\ Abort
    /\ UNCHANGED <<hw, sysfs, copy, saved, file, refused>>

\* ... or the driver refuses it for reasons of its own.
LoadRefused ==
    /\ AtKey /\ ~Negative /\ ~PassedOver
    /\ refused' = TRUE
    /\ Abort
    /\ UNCHANGED <<hw, sysfs, copy, saved, file>>

LoadEnd ==
    /\ phase = "load" /\ at > Len(file)
    /\ phase' = "done"
    /\ UNCHANGED <<hw, sysfs, copy, saved, file, at, loadRc, refused>>

RoundTripNext ==
    \/ SaveKey \/ SaveEnd \/ Reconfigure
    \/ LoadSkip \/ LoadWrite \/ LoadInvalid \/ LoadRefused \/ LoadEnd

RoundTripSpec == RoundTripInit /\ [][RoundTripNext]_roundTripVars

-----------------------------------------------------------------------------
\* The attributes in the file that make a difference: a dedicated wq has no
\* use for a threshold, a group none for a limit the device does not have.
Matters(a) ==
    /\ a = "threshold" => saved["mode"] = Shared
    /\ a = "use_read_buffer_limit" => saved["read_buffer_limit"] # 0

\* A load of a saved file that ends with 0 gives the device back every
\* attribute in the file that its driver has, whatever its configuration was
\* before: no key is silently passed over because of what the keys after it
\* will change.
Restored ==
    phase = "done" /\ loadRc = 0 =>
        \A i \in DOMAIN file :
            LET a == file[i].key IN
            Matters(a) /\ saved[a] # Missing /\ sysfs[a] # Missing => sysfs[a] = saved[a]

\* A saved file loads, with an older driver too: it ends with an error only if
\* the driver refuses a value it once had, or has no op_config any more.
SavedFileLoads ==
    loadRc # 0 => \/ refused
                  \/ file[at].key = "op_config" /\ sysfs["op_config"] = Missing
-----------------------------------------------------------------------------
(* The inductive invariant behind these properties. *)

\* The configuration that was saved is one a driver can be in, the keys in the
\* file have its values.
SavedValid ==
    /\ \E h \in Hardware, c \in Config :
         h.iax = hw.iax /\ Valid(c) /\ saved = On(h, c)
    /\ \A i \in DOMAIN file : file[i].val = Read(saved)[file[i].key]

\* What save-config has put into the file, of the first n keys.
Holds(n) ==
    {FileOrder[m] : m \in {l \in 1..n :
        /\ FileOrder[l] \in ReadBuffer => ~hw.iax
        /\ FileOrder[l] \in OnlyIfRead \cup {"driver_name", "op_config"}
             => saved[FileOrder[l]] # Missing}}

KeysSaved ==
    {file[i].key : i \in DOMAIN file}
        = Holds(IF phase = "save" THEN at - 1 ELSE Len(FileOrder))

\* The file has the keys in the order of FileOrder.
Place(a) == CHOOSE n \in DOMAIN FileOrder : FileOrder[n] = a
KeysOrdered ==
    \A i, j \in DOMAIN file : i < j => Place(file[i].key) < Place(file[j].key)

\* sysfs lacks what the driver lacks; the library's copy, except that of
\* op_config, is what sysfs holds.
Known ==
    /\ \A a \in Attr : sysfs[a] = Missing <=> a \in hw.lacks
    /\ \A a \in Attr \ {"op_config"} : copy[a] = Read(sysfs)[a]
    /\ phase = "save" => sysfs = saved /\ copy = Read(saved)

\* The keys that load-config has been over are restored.
RestoredSoFar ==
    phase \in {"load", "done"} =>
        \A i \in 1..(at - 1) :
            LET a == file[i].key IN
            Matters(a) /\ saved[a] # Missing /\ sysfs[a] # Missing => sysfs[a] = saved[a]

RoundTripInv ==
    /\ RoundTripTypeOK
    /\ SavedValid
    /\ KeysSaved
    /\ KeysOrdered
    /\ Known
    /\ RestoredSoFar
    /\ phase = "between" => at = 1
    /\ phase = "done" /\ loadRc = 0 => at > Len(file)
    /\ loadRc # 0 => phase = "done"
    /\ SavedFileLoads
=============================================================================
