# A TLA+ verification of accel-config

accel-config configures the Intel accelerator devices (DSA, IAX) that the Linux
`idxd` driver exports through sysfs. The modules here model the library, every
command of the tool that reads or changes the state of the machine, the parser
of their options, and the way the test programs submit work. TLC checks them on
small instances; TLAPS proves 35 of their properties for every instance, among
them that the enable and disable commands implement an abstract service: all
that the runs check, except liveness.

## Inventory

| Part | Source | State | Operations |
|---|---|---|---|
| kernel driver (external) | - | state and clients of each device and wq | bind, unbind, open, close, drain, lock |
| library: control | `accfg/lib/libaccfg.c` | error context of the `accfg_ctx` | `accfg_device_{enable,disable}`, `accfg_wq_{enable,disable}` |
| library: attributes | `accfg/lib/libaccfg.c` | cached copy of each attribute | `accfg_*_set_*`, `accfg_*_get_*` |
| library: enumeration | `accfg/lib/libaccfg.c` | lists of devices, groups, wqs, engines; reference count | `accfg_*_get_first`, `add_*`, `accfg_ref`, `accfg_unref` |
| enable/disable commands | `accfg/enable.c` | position in the list, `rc`, `success` | `device_action`, `wq_action` |
| load-config | `accfg/config.c` | current component (static), activation lists | `configure_json_value`, `activate_devices` |
| config-user-default | `accfg/config.c` | default parameters by device type | `config_default_disable`, `config_default_activate_devices` |
| config-device, -group, -wq, -engine | `accfg/config_attr.c` | parsed options | validate, then set in order |
| list, save-config | `accfg/list.c`, `util/json.c` | JSON containers | walk and print |
| error reports | `accfg/lib/libaccfg.c`, `accfg/accel-config.c` | `cmd_status` of each device, global `init_cmd_status`, error context | clear, compare, save, report |
| options | `util/parse-options.c` | position in `argv`, operands kept | `parse_options` |
| strings, help, main | `util/` | - | text processing |
| test programs | `test/` | descriptors, completion records | submit, wait, resubmit |

Every command is a process of its own. It reads sysfs at its start to build the
lists of the library, and then works with one sysfs access after another.
Several such processes, applications that open wqs, and the driver share the
sysfs state without any lock: every "look, then write" of the code is a window.
The other hard behaviours are ignored or partial failures (a result not looked
at, a list processed half), and state that outlives the loop round that set it.
`PROJECT.json` lists the hazards at their lines.

What makes the parts correct:

* control: a call that returns 0 had its effect; without force nothing in use
  is taken away, except through the window between look and write;
* enable/disable: success is counted for own work only, and the exit status
  agrees with it; the commands end;
* load-config: attributes reach the component of their block; what is enabled
  is what the file names and was not skipped, devices before wqs, and nothing
  at all if there was an error;
* config-user-default: with `-d` wqs of other names are spared and those of the
  default name are not forgotten; without it only devices enabled by this run
  get wqs, with the default attributes;
* config-device and the like: exit status 0 means that every attribute asked for
  is set; after an error what was written is a prefix of what was asked for, and
  what is written is valid for the device of the object;
* enumeration: no directory is listed twice, nothing leaks or dangles, walks end
  even with lookups in their body;
* error reports: the reason reported is the driver's for this failure, not an
  old one, and it has a text;
* list and save-config: every active wq is listed, under its own group; what was
  saved can be loaded and gives the same configuration;
* options: a command runs exactly if its line is right, with the values and
  operands of the line;
* submission: no memory the device may still write is freed, nothing is dropped
  by a full wq, a test passes only if every descriptor completed.

## Modules

    IdxdDriver <- AccfgControl <- EnableCmd *
                                   <- EnableRefinement * (-> ControlService)
                               <- LoadConfig *
                               <- UserDefault *
               <- Listing
    ConfigAttr *   Enumeration *   Submission *
    CmdStatus   OptionParse   RoundTrip

`A <- B` reads "B extends A"; EnableRefinement instantiates ControlService. The
proofs about a module M with a star are in the module `M_proof`, which extends
it; EnableCmd_proof has those about EnableRefinement too, SaveConfig_proof those
about Listing and RoundTrip, the two halves of save-config, and Frontend_proof
those about OptionParse and CmdStatus, what happens before a command runs and
after it failed. Modules that share a proof module use different names for what
they do not share. Each module with runs has an `MC` module that gives its constants values. The modules
of the last two lines stand alone: what they share with the others is too little
(sysfs as a function from attributes to values, say) to be worth a module.

**IdxdDriver** (external). `devState`, `wqState`, `clients` are what the sysfs
attributes `state` and `clients` show. `BindDevice` ... `UnbindWq` are the
effects of a bind or unbind write; disabling a device releases its wqs, and a
wq unbound with open handles may drain ("quiescing") first. A write that fails
changes nothing and is an action of the caller. `ClientOpen`, `ClientClose`,
`QuiesceDone`, `LockWq`, `UnlockWq` happen on their own. Everything here comes
from how the library uses the attributes: the four wq states it parses, the
refusal on `clients > 0`, the verification after the write.

**AccfgControl** is `accfg_device_control()` and `accfg_wq_control()`, one
action per sysfs access of a process: resolve the unbind path, read `clients`,
write, verify. Each access may fail, and the failure goes where the code sends
it (`save_last_error`, the early returns, or, for `clients`, nowhere).
`errctx[p]` keeps the device or wq of the last error; an error of a group or
engine is recorded as that of its device. The history variable `raced` holds
the processes whose look at `clients` is out of date.

**EnableCmd** runs the four commands of `enable.c` in any number of processes.
`ActionDevice` and `ActionWq` are the lookup and the check before the call,
`ControlStep` and `ControlEffect` the call, `DeviceResult` and `WqResult` what
follows it, `Finish` the exit status. Histories: `wrote` (list positions whose
write had an effect) and `owner` (who changed an object last).

**LoadConfig** sees a file as the sequence of entries that the depth-first walk
of `json_parse()` meets: "dev" entries that open the block of a component, and
attributes. `parent` and `cur` are the static variables of
`configure_json_value()`. An attribute is one of three classes (written,
silently ignored, not convertible); which attribute is in which class depends
on the tables of setters and the `is_*_writable` functions and is left open.
The file buffer is not terminated by a NUL byte in `read_config_file()`, so the
parser may read beyond it: `ReadFile` may succeed or fail for any file. Out of
memory is not modelled.

**UserDefault** is `config_default_disable()` and
`config_default_activate_devices()`. The name of a wq is compared as it was
when the process scanned (`cached`). `attrs[w]` are the attributes with the
default value; three of them stand for the eleven the code writes. Histories:
`touched` (changed by other processes), `failed` (an access failed), `own`
(enabled by this run).

**ControlService** is what enabling and disabling promise without sysfs: a
process asks for one object, the switch happens at most once and at one moment
before the answer, success may be answered only if it did, and nothing else
switches anything. **EnableRefinement** maps EnableCmd to it: what is on is what
is bound, a request is pending while a call of the library is, it has had its
effect once the process's own write did, and the successes reported are the
names counted.

**ConfigAttr** is `config_attr.c` and the setters below it. `Param` is the
parameter after the conversion of `get_value()` to the C type of its field
(`int`, `unsigned`, `uint64_t`, modulo the constant `IntMax`), `Given` the
comparison with the value that stands for "not given", `Valid` the checks
against the limits of the device. `NextName` and the actions `Set*` are the two
loops: over the names, and over the setters in their order (`SetterOrder`); a
setter is locked (device not configurable), refuses an unknown driver, finds the
attribute missing, is accepted, runs out of memory after the write, or is
refused by the driver. What sysfs holds after a write is what the driver makes of
the value (`Kept`, external): `max_batch_size` and `max_transfer_size` are rounded
up to a power of two, as `Documentation/accfg/accel-config-config-wq.txt:84-96`
says. `cache` is the library's copy of the attributes, `errno`
that of the process, which the locked setters return without having set it.
Histories: `applied`, `passed`, `lost`.

**Enumeration** is the object tree of the library: `New`, `Ref`, `Unref`,
`DevicesInit`, the scans of wqs and engines and the walks. Any directory may
fail to become an object. `heap` is what is allocated, `initFlag` the flags in
the groups, `groupPtr` the pointer `device->group`, which stays behind if
`add_group()` fails after it was set (`lateGroup`). `GetById` is a lookup in the
body of a walk. On a device without a group there is no flag, and its wqs are
scanned at every walk; `ListedOnce` and `WalkEnds` speak of the other devices.
The heap is one of objects: the strings a failing `add_device()` leaves behind
are below this abstraction.

**CmdStatus** is how the tool learns why the driver refused something:
`ClearStatus` and then `ReadSucceeds` or `ReadFails` at the scan of each device (a
read that fails leaves a negative errno in `init_cmd_status`, `ReadError`),
`AccessFails` (the driver sets a code), `SaveLastError`, and the report of
`main()`. `expect[p]` is
the status the last failure left, if no other process cleared or set it since.

**Listing** is `util_filter_walk()` with the filter functions of `list.c` and
the almost identical ones of `config.c`. A container has `max_groups` slots, as
in the code. `cached` is the group id of a wq or engine as scanned, its state is
read at the visit. Other processes (`OtherProcess`) bind, unbind and regroup, to
any group of any device's range (`GroupId`).

**RoundTrip** is the values: the keys that the `*_to_json()` functions write and
their order, the condition for each, and what the tables of setters do with
them. `SaveKey` puts a key into the file or leaves it out, `SaveEnd` writes it.
Between save and load (`Reconfigure`) the device gets any configuration that is
valid (`Valid`: fields of one or two bits, a threshold within the size), under
the same or another set of attributes. `LoadSkip`, `LoadWrite`,
`LoadInvalid` and `LoadRefused` are the outcomes for one key.

**Submission** is the path of `dsa_test`'s memory operations: batches, MOVDIR64B
or three tries of ENQCMD, the wait with its timeout in both variants (UMWAIT or
sleep), resubmission after a page fault, verification, and `acctest_free()`.
`Complete` is the device and happens at any time or never, with a page fault as
often as the device likes. `AllocFails` leaves the list of tasks complete or
half-built; in the latter case the node that failed has an uninitialized next
pointer, and following it is harmless (`Release`) or a crash (`ReleaseWild`).

**OptionParse** scans a command line one argument, and in a bundle one letter,
at a time and overwrites `argv` in place. A text is a sequence of pieces (`Piece`),
cut where the texts to compare differ. `Consider` is one turn of the loop over
the option table for a long option, `GetValue` what an option stores. `Roles`,
`Readings`, `RightOption` and `Asked` say what a line means without scanning it;
the properties compare the two. `exitCode` is the exit status of a refused line: 129 for an unknown option, 0
after the usage text for others (an ambiguous option, a missing value); no
document speaks of it.

In LoadConfig, UserDefault and Listing other processes appear by the net effect
of their commands (`OtherProcess`, external). The definitions named `X_Y` next to
a definition `X`, with the comment "Mutant", are wrong versions of it that
show that a property is sensitive to it; no specification uses them.

## Runs

| Run | Instance | Shows |
|---|---|---|
| `enable_commands` | 1 device, 2 wqs (one with an unknown driver name), 2 processes, 5 command lines, 1 client per wq | `NoStolenCredit`, `OutcomeStands`, `ExitStatusSound`, `ClientsSpared`, types; the refinement `ImplementsService`; `CommandsEnd` |
| `load_config` | 2 devices with a wq each, a group, 5 files, all options | `WritesInBlock`, `LoadedMeansEnabled`, `NothingEnabledEarly`, `DeviceBeforeWq`, `LoadEnds` |
| `user_default` | 1 device, 2 wqs, no option, `-c` and `-d`, 1 step of others | `DisableComplete`, `EnabledAsConfigured`, `OthersSpared`, `OnlyFreshDevices` |
| `config_attributes` | 2 devices (one old, one not configurable), 2 groups, 2 wqs, 1 engine, 2 processes, 15 command lines | `SettingStands`, `AppliedPrefix`, `WithinLimits`, `CacheCoherent` |
| `enumeration` | 2 devices (2 groups, 2 wqs, 1 engine; no group, 1 wq) | `ListedOnce`, `HeapIsListed`, `GroupsLive`, `WalkEnds` |
| `cmd_status` | 2 devices, 2 processes, 3 codes, 2 failures each | `ErrorNotLost`, `LastDeviceNotStale`, `TextUnlessHole` |
| `listing` | 2 devices with 2 and 3 groups, 3 wqs, 1 engine; list, list -i, save, load, 7 command lines with filters | `InOwnGroup`, `ListingComplete`, `FoundMeansListed` |
| `round_trip` | DSA and IAX, 4 sets of missing attributes, 32 configurations before and after | `Restored`, `SavedFileLoads` |
| `submission` | 5 descriptors, wq of size 3, 2 intervals until timeout, any number of page faults, dedicated and shared, with and without UMWAIT | `OwnedNotFreed`, `NothingDropped`, `PassMeansDone`, `TestEnds` |
| `option_parsing` | 2 tables of 4 options, every line of at most 3 of 26 arguments | `RunsIffRight`, `OperandsKept`, `SettingAsAsked`, `ParseEnds` |

The statement of each property is in the comment above it. `TypeOK` of every
module documents what its variables hold; that of EnableCmd is checked and
proved, the others hold in the instances above but are not worth a run's time.

Runs that show a disagreement between the code and what it says of itself:

| Run | Property | Behaviour |
|---|---|---|
| `active_wq_not_skipped` | `ActiveWqSkipped` | "will skip..." is printed for an active wq, its first attribute ends the load with -EINVAL |
| `device_taken_with_active_wq` | `DeviceAfterWqs` | disabling a default wq fails, the result is ignored, the device is disabled by force |

Other behaviours that surprise are part of the models, and where a property
would fail because of one it names the exception:

* `ClientsSpared` excepts `raced`: an application that opens a wq after `clients`
  was read as 0, or a look that failed, and the unbind follows without `--force`
  (`libaccfg.c:2111`).
* `ExitStatusSound` lets a device command end with 0 whose double check set
  `rc = ENXIO`, a positive number (`enable.c:129`).
* `config-user-default -d` disables an enabled device that never had a default
  wq: `OthersSpared` speaks of wqs only (`config.c:1637`).
* `config-wq --wq-size` with INT_MAX is a command line without the option for the
  code (`NotGiven` in ConfigAttr, `config_attr.c:225`).
* A max batch or transfer size that is not a power of two is rounded up by the
  driver and not by the library, whose copy keeps the value as it was written
  (`libaccfg.c:2298`): `SettingStands` and `CacheCoherent` allow for that, and for
  no other difference.
* `WithinLimits` excepts negative group ids and switches (`NoLowerBound`): "valid
  group id should be 0 to %d or -1 to dissociate the wq from groups" says the
  message (`config_attr.c:234`), but only the upper bound is checked.
* `LastDeviceNotStale` is about the last device scanned: of the others an old
  `cmd_status` that could not be cleared may be reported, since
  `init_cmd_status` is one variable for all (`libaccfg.c:550`). Of the last one,
  too, if the read at its scan failed: the negative errno is different from every
  status, so that nothing is held back.
* `TextUnlessHole` excepts codes in a hole of `accfg_device_cmd_status`, for which
  the library returns a null pointer and `main()` prints it (`libaccfg.c:1467`).
* `InOwnGroup` excepts `list -g` of one group: the wqs of group 0 match the slots
  that no group was put into, whose id is 0 (`list.c:145`).
* The traffic classes of a group are in no saved file, so that `Restored` does
  not speak of them (`group_to_json()` in `list.c`).
* Submission's properties except `overlooked`: a descriptor whose wait timed out
  while a later one of its batch completed is taken for done (`test/dsa.c:822`).
* `TestEnds` excepts a device that faults for ever: `dsa_wait_memcpy()` resubmits
  after each page fault, and only each single wait is bounded (`test/dsa.c:786`).

Bounds. `MaxClients` = 1: the code only asks whether there is a client.
Two processes give every interleaving of two accesses of the library; a third
would only repeat one of the two roles. Two wqs of one device let one keep the
other's device alive; two devices let a stale `parent` be wrong. The command
lines contain a repeated name, a name that does not exist and "all". `MaxOther`
bounds the steps of other processes during config-user-default and list (the
steps of applications and of the driver are not bounded).
ConfigAttr: `IntMax` = 131071 is beyond every limit of the code (65535 is the
largest) and keeps the arithmetic of TLC small; the command lines have a value
of each C type, values at and beyond limits, names that differ in their device's
limits, and a name not found; some of the sizes are not powers of two. `Pow2` are
those TLC needs. Enumeration: `MaxRef` = 2 distinguishes the last
`accfg_unref()` from others, `MaxScan` = 2 lets a device without a group be
scanned twice. CmdStatus: the codes are one just beyond the table of the
software's texts, one of the device's table, and one in a hole of it; `MaxFail` = 2
lets a second failure follow the first. The processes are symmetric. Listing: 2 and 3 groups make `group_num % max_groups`
start at a slot that is not 0. RoundTrip: an attribute that others depend on
varies by itself, the rest have two values together. Submission:
a batch of three and one of two, so that a timeout can be followed by completions
in its batch and by another batch that is not full. The number of page faults is
not bounded. OptionParse: three arguments are an option, its
value, and an operand; two tables have exact names that are prefixes of others
and abbreviations that are ambiguous in either order.
In the runs of the commands deadlock is not checked, since they end.

Fairness. Only the process (or program) itself is assumed to be scheduled (weak
fairness of its steps): sysfs accesses return, as they do in the kernel. Nothing
is assumed of other processes, of applications, of the driver or of the device:
`TestEnds` holds because every wait is bounded; since the number of waits is not,
it says that the test ends or resubmits for ever. `WalkEnds` assumes that a program
which began a walk goes on with it (weak fairness of `GetNext`). Where no
liveness is stated (config-user-default, config-device and the like, list) the
command is a plain loop over lists that are fixed when it starts.

## Proofs

Each theorem below is of the form `Spec => []P` (for an action property or the
refinement `Spec => P`) and holds for all values of the constants that satisfy
the assumptions named: any number of devices, wqs, groups, processes, command
lines, files, descriptors. The assumptions only say what kind of values the
constants are (directories without repetition, disjoint sets of objects, a
device for each wq, the ranges of bounds); TLC evaluates them in the runs.

| Module | Theorem | Property | Assumptions |
|---|---|---|---|
| EnableCmd_proof | `TypeCorrect` | `TypeOK` | `DriverAssumption`, `ControlAssumption`, `CommandAssumption` |
| | `CreditIsOwn` | `NoStolenCredit` | |
| | `OutcomesStand` | `OutcomeStands` | |
| | `ExitStatusCorrect` | `ExitStatusSound` | |
| | `UnforcedDisableSparesClients` | `ClientsSpared` | |
| | `CommandsImplementService` | `ImplementsService` | and `RequestAssumption` |
| LoadConfig_proof | `AttributesReachTheirBlock` | `WritesInBlock` | `DriverAssumption`, `ControlAssumption`, `LoadAssumption` |
| | `LoadEnablesTheFile` | `LoadedMeansEnabled` | |
| | `ErrorsEnableNothing` | `NothingEnabledEarly` | |
| | `DevicesComeFirst` | `DeviceBeforeWq` | |
| UserDefault_proof | `DisableLeavesNone` | `DisableComplete` | `DriverAssumption`, `ControlAssumption`, `UserDefaultAssumption` |
| | `EnabledHaveDefaults` | `EnabledAsConfigured` | |
| | `SparesOthers` | `OthersSpared` | |
| | `EnablesOnFreshDevices` | `OnlyFreshDevices` | |
| ConfigAttr_proof | `SuccessMeansConfigured` | `SettingStands` | `PowerAssumption`, `ConfigAssumption`, `CommandAssumption` |
| | `WritesInOrder` | `AppliedPrefix` | |
| | `WritesWithinLimits` | `WithinLimits` | |
| | `CopyIsCurrent` | `CacheCoherent` | |
| SaveConfig_proof | `InOwnGroupHolds` | `InOwnGroup` | `DriverAssumption`, `ListingAssumption` |
| | `ListingCompleteHolds` | `ListingComplete` | |
| | `FoundMeansListedHolds` | `FoundMeansListed` | |
| | `RestoredHolds` | `Restored` | `RoundTripAssumption` |
| | `SavedFileLoadsHolds` | `SavedFileLoads` | |
| Frontend_proof | `RunsIffRightHolds` | `RunsIffRight` | `OptionAssumption` |
| | `OperandsKeptHolds` | `OperandsKept` | |
| | `SettingAsAskedHolds` | `SettingAsAsked` | |
| | `ErrorReachesReport` | `ErrorNotLost` | `CmdStatusAssumption`, `CodeAssumption` |
| | `LeftoverNotReported` | `LastDeviceNotStale` | |
| | `TextOrHole` | `TextUnlessHole` | |
| Submission_proof | `FreedIsNotOwned` | `OwnedNotFreed` | `SubmissionAssumption` |
| | `DedicatedDropsNothing` | `NothingDropped` | |
| | `PassIsComplete` | `PassMeansDone` | |
| Enumeration_proof | `DirectoriesListedOnce` | `ListedOnce` | `EnumerationAssumption` |
| | `NothingLeaks` | `HeapIsListed` | |
| | `GroupPointersValid` | `GroupsLive` | |

`PowerAssumption` says of `Pow2` that its elements are positive and at least a
factor of two apart. `ConfigAssumption` takes the device's own `max_batch_size` and
`max_transfer_size` from it (or 0): with any other limit a valid value could be
rounded beyond it. They are powers of two in the listing of
`Documentation/accfg/accel-config-list.txt:43-44`, and the test programs take the
logarithm of the latter (`test/accel_test.c:237`). It also has `max_wq_size` and
`max_batch_size` fit an `int`, as which the library prints them.

`OptionAssumption` is what every table of the tool satisfies: short names differ
and none is "h"; long names differ, contain no "=", are not a single piece and do
not begin with "no-". Of command lines it only says how they are cut into pieces.
`ListingAssumption` gives every device `max_groups` groups, at least one, in the
order of their ids. `RoundTripAssumption` gives every DSA device read buffers and
no IAX device any.

The argument is the same everywhere. The properties are not inductive by
themselves; each model module ends with the parts of an invariant `IInv` that is
(in EnableRefinement, `EffectOnce` on top of that of EnableCmd; in Listing,
RoundTrip and OptionParse it is named `ListingInv`, `RoundTripInv` and `ParseInv`), which TLC
checked on the instance of the module's run before it was proved. The proof
modules show that the initial states satisfy it and that each action preserves
each part it can disturb. What the parts are for:

* **EnableCmd.** That a success is counted only after an own effect needs to
  know that a call which is about to return 0 had it (`Progress`) and that the
  call in progress is about the current name (`CallMatches`); that an outcome
  stands needs the verified state of a wq between the verification and the
  counting (`WqVerified`), and that whoever changes it becomes its owner
  (`AchievedOrOwned`); that clients are spared needs that a process about to
  unbind without force an object in use is in `raced` (`StaleLook`), which
  `Environment` keeps up when a client opens the wq. `OthersUntouched` gives the
  frame for the other processes.
* **EnableRefinement.** Initial states map to initial states, and each action to
  an action of ControlService or to a stuttering step. A switch of the service
  must be the first of its request: the write of a name takes effect only in the
  call for that name and never twice (`EffectOnce`), although a device may be
  disabled by one process while another is in a call for one of its wqs.
* **LoadConfig.** The static variables `parent` and `cur` stand for the section
  and the block of the entry the walk is at (`Context`), with `Places` for what
  lies behind it. The lists of activations hold what the entries so far ask for
  (`Queued`), and no wq without its device (`DevicesQueued`), so that taking
  devices first is enough.
* **UserDefault.** `Swept` says what is true of the wqs behind the two loops of
  `-d`, `NoneInUse` what the unset flag `non_default_wq_enabled` means for those
  of the current device, `AttrsWritten` what has been written to those behind
  the loops of the other half, `Branches` where each half is; `CallMatches` and
  `GoneBeforeSuccess` tie the call of the library to the loops. The lemmas about
  `Interferes` frame the steps of the library, of other processes and of the
  environment; `OnlyWrites` shows that of the tool's own steps only a write that
  takes effect changes the state of the driver, which gives the two action
  properties.
* **ConfigAttr.** Setters run only for a name that was validated (`Control`),
  what was written stands, as the driver keeps it, unless another process wrote it
  (`AppliedStands`), and whatever the two loops have been over was
  written or passed over for a reason (`HandledSoFar`, `PassedOver`). `WithinLimits`
  is inductive with these. The limits are compared after the conversion to the C
  type, but the value is printed with "%d" and rounded afterwards; that it stays
  valid (`StoredIsAllowed`) needs that a limit fits an `int` and that rounding up
  does not pass a limit that is a power of two itself (`RoundedWithin`).
* **CmdStatus.** `InitialKnown` says what the one variable `init_cmd_status` tells
  after the scan of all devices, if the last read did not fail, `FailureReadable` that the status of a failure
  is still there when it is saved, `ScanFirst` that nothing is saved earlier.
* **Submission.** `Position` and `BatchProgress` tell how far the current batch
  has got in each of the loops, `PastDone` that the batches behind succeeded,
  `NotYetSubmitted` that a task about to be (re)submitted is not with the device,
  which bounds the number of tasks in the wq; `RecordWhenComplete` links record
  and device, `Closed` the end.
* **Enumeration.** `Unscanned` (nothing exists before the scan) and `OwnGroup`
  (devices do not share the groups that hold their flags). The lists come from
  `Parse`, a recursive function on the directories that did not fail. That its
  result holds exactly those directories (`Parsed`) is proved from a least
  counterexample (`WFMin` and the well-founded order of the naturals): the
  induction theorems of the library take an operator as a parameter, which the
  provers do not instantiate.

* **Listing.** That a wq stands in its own group's array needs that the slots of a
  container and the groups of the device match one to one. The code starts at
  slot `group_num % max_groups` and goes around: `Filling` says which groups are
  in which slots after some of them, and becomes `Filled` after the last.
  `Arrays` then follows the wqs and engines, `DevicesBehind` and `WqsBehind` say
  that what the walk has passed is listed exactly if it is active, `FoundSoFar`
  that what a filter found is. `GroupIds` ties the ids read at the start to the
  driver's, except for what other processes moved since.
* **RoundTrip.** The file has the keys in the order of `FileOrder` (`KeysOrdered`),
  all that `*_to_json()` writes (`KeysSaved`) with the values of a configuration
  that is valid (`SavedValid`). What the check for a key depends on stands
  before it in that order (mode and size before the threshold, the device's
  limit on read buffers before the group's use of it) and is restored when the
  key comes (`RestoredSoFar`), so that the key is neither passed over nor
  refused.
* **OptionParse.** The scan is compared with the meaning of the line. For long
  options, `FoundIn` says what the loop over the table has found after some of
  its options in terms of `Named` and `Abbreviated`; that at most one option is
  named (`OneReading`) makes the first exact match the only one, and lets it win
  over an ambiguity met before. Within a bundle `AtPiece` says that the options
  before are booleans and set. For the operands `KeptSoFar` says that those
  before the scan are in front, each at the place given by the number of those
  before it, and that nothing from the scan on is overwritten, since fewer
  arguments are kept than were read. `ScanIsRight` says that the scan stands at
  no value of an option. The recursions `Scan` and `Roles` are shown well
  defined by the lemma `Recursion`, from a least counterexample as above.

The proof about OptionParse corrected the meaning of a line: a text that
abbreviates an option whose name begins with "n" (`--n` for `--name`) was also
read as an abbreviated negation of the same option, as if it were ambiguous. In a
table with a second option it is ambiguous anyway (`--n` may be "no-" followed by
the other), so that the run, whose tables have four options, could not tell.

Model-checked only:

* the liveness properties `CommandsEnd`, `LoadEnds`, `WalkEnds`, `TestEnds` and
  `ParseEnds`: liveness under fairness is beyond the prover;
* the two disagreements of the table above, which are counterexamples.

## Plan

All components of the plan are modelled, and every safety and action property
that a passing run checks is proved. What could follow:

1. An abstract specification of load-config in terms of ControlService, so that
   what LoadConfig and UserDefault enable is a sequence of its requests.
2. Step-by-step facts below the liveness properties (a measure that every step
   of a process decreases), which the prover can check although it cannot
   combine them with fairness.
3. The batch, DIF and IAA variants of submission, if the test programs are to be
   relied on.

## Not modelled

* Help texts, string buffers, bitmaps, logging, printing and the dispatch of
  `util/main.c`: sequential text processing and output.
* In `parse-options.c` the `PARSE_OPT_*` flags, callbacks and long names that
  begin with "no-": every caller passes 0 and no table has one.
* The vendored `ccan` code; its lists are sequences here.
* Of the test programs: the bit-level reference algorithms, the scenarios, and
  the batch, DIF and IAA variants of submission, which go through the functions
  that Submission models.
* Of JSON files, an object as the value of a key: the code continues the walk in
  that object and ignores its result, but no saved file has one.
