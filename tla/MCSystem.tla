----------------------------- MODULE MCSystem -------------------------------
(***************************************************************************)
(* The parts that look after the box itself, checked in one run: the       *)
(* document and its migration, the start and stop of olrd, signing in,     *)
(* remote access, the takeover of the host's own network settings, and the *)
(* device inventory. Each behaviour is one component's, and `which` says   *)
(* whose: in the behaviours of the others remote access, which this module *)
(* extends, rests in its initial state.                                    *)
(***************************************************************************)
EXTENDS Remote

CONSTANTS NoValue

VARIABLES
    which,  \* the component this behaviour is of
    password, next, sessions, disk, cookie, token, request, now, doc, lan,
    records, dirty, db, known, saved, want, conf, loaded, kind, resolv,
    dropin, original, ra, originals, present, managed, job, ok, had, before,
    moves, hand, live, pc, at, held, revert, edit, running, dbOpen, failed,
    rolled, lost, stops, file, legacy, addr, backup, may, otherTrial,
    otherEdits, otherFaults

all == <<which, vars,
    password, next, sessions, disk, cookie, token, request, now, doc, lan,
    records, dirty, db, known, saved, want, conf, loaded, kind, resolv,
    dropin, original, ra, originals, present, managed, job, ok, had, before,
    moves, hand, live, pc, at, held, revert, edit, running, dbOpen, failed,
    rolled, lost, stops, file, legacy, addr, backup, may, otherTrial,
    otherEdits, otherFaults>>

(* The components and their instances. *)
TheAccess == INSTANCE Access WITH
    Browsers <- {"b1", "b2"}, MaxSessions <- 1, MaxTime <- 2,
    MaxPasswords <- 3, MaxTokens <- 4, MaxFaults <- 2,
    edits <- otherEdits, faults <- otherFaults
TheDevices == INSTANCE Devices WITH
    Macs <- {"m"}, Groups <- {"a", "b", "c"}, Names <- {"n"}, Depth <- 2,
    Forget <- 1, MaxTime <- 2, MaxEdits <- 2, MaxFaults <- 1,
    edits <- otherEdits, faults <- otherFaults
TheHost == INSTANCE Host WITH
    None <- NoValue, Ifaces <- {"e"}, Servers <- {"s"},
    Kinds <- {"file", "resolved", "other"}, MaxEdits <- 2, MaxHost <- 1,
    MaxHand <- 0, MaxFaults <- 1,
    edits <- otherEdits, faults <- otherFaults
EditedHost == INSTANCE Host WITH
    None <- NoValue, Ifaces <- {"e"}, Servers <- {"s", "t"},
    Kinds <- {"file"}, MaxEdits <- 2, MaxHost <- 0, MaxHand <- 1,
    MaxFaults <- 1,
    edits <- otherEdits, faults <- otherFaults
TheStart == INSTANCE Start WITH
    Editable <- {"link", "dns"}, MaxEdits <- 1, MaxStops <- 2, MaxFaults <- 1,
    trial <- otherTrial, edits <- otherEdits, faults <- otherFaults
TheStore == INSTANCE Store WITH
    Ifaces <- {"e0", "e1"}, Known <- {"link", "dhcp", "dns"},
    Others <- {"next"}, MaxEdits <- 2, MaxHand <- 1, MaxFaults <- 1,
    trial <- otherTrial, edits <- otherEdits, faults <- otherFaults

(* What the theorem about the document takes of its sections. *)
ASSUME SectionsAssumption == TheStore!SectionsOK

(* The variables of the other components stay at NA. *)
NA == 0

TheRemoteInit ==
    /\ which = "remote" /\ Init
    /\ password = NA /\ next = NA /\ sessions = NA /\ disk = NA
    /\ cookie = NA /\ token = NA /\ request = NA /\ now = NA /\ doc = NA
    /\ lan = NA /\ records = NA /\ dirty = NA /\ db = NA /\ known = NA
    /\ saved = NA /\ want = NA /\ conf = NA /\ loaded = NA /\ kind = NA
    /\ resolv = NA /\ dropin = NA /\ original = NA /\ ra = NA
    /\ originals = NA /\ present = NA /\ managed = NA /\ job = NA /\ ok = NA
    /\ had = NA /\ before = NA /\ moves = NA /\ hand = NA /\ live = NA
    /\ pc = NA /\ at = NA /\ held = NA /\ revert = NA /\ edit = NA
    /\ running = NA /\ dbOpen = NA /\ failed = NA /\ rolled = NA /\ lost = NA
    /\ stops = NA /\ file = NA /\ legacy = NA /\ addr = NA /\ backup = NA
    /\ may = NA /\ otherTrial = NA /\ otherEdits = NA /\ otherFaults = NA
TheRemoteRest ==
    UNCHANGED <<which,
        password, next, sessions, disk, cookie, token, request, now, doc,
        lan, records, dirty, db, known, saved, want, conf, loaded, kind,
        resolv, dropin, original, ra, originals, present, managed, job, ok,
        had, before, moves, hand, live, pc, at, held, revert, edit, running,
        dbOpen, failed, rolled, lost, stops, file, legacy, addr, backup, may,
        otherTrial, otherEdits, otherFaults>>
TheRemoteNext ==
    which = "remote" /\ Next /\ TheRemoteRest

TheAccessInit ==
    /\ which = "access" /\ TheAccess!Init /\ Init
    /\ doc = NA /\ lan = NA /\ records = NA /\ dirty = NA /\ db = NA
    /\ known = NA /\ saved = NA /\ want = NA /\ conf = NA /\ loaded = NA
    /\ kind = NA /\ resolv = NA /\ dropin = NA /\ original = NA /\ ra = NA
    /\ originals = NA /\ present = NA /\ managed = NA /\ job = NA /\ ok = NA
    /\ had = NA /\ before = NA /\ moves = NA /\ hand = NA /\ live = NA
    /\ pc = NA /\ at = NA /\ held = NA /\ revert = NA /\ edit = NA
    /\ running = NA /\ dbOpen = NA /\ failed = NA /\ rolled = NA /\ lost = NA
    /\ stops = NA /\ file = NA /\ legacy = NA /\ addr = NA /\ backup = NA
    /\ may = NA /\ otherTrial = NA
TheAccessRest ==
    UNCHANGED <<which, vars,
        doc, lan, records, dirty, db, known, saved, want, conf, loaded, kind,
        resolv, dropin, original, ra, originals, present, managed, job, ok,
        had, before, moves, hand, live, pc, at, held, revert, edit, running,
        dbOpen, failed, rolled, lost, stops, file, legacy, addr, backup, may,
        otherTrial>>
TheAccessNext ==
    which = "access" /\ TheAccess!Next /\ TheAccessRest

TheDevicesInit ==
    /\ which = "devices" /\ TheDevices!Init /\ Init
    /\ password = NA /\ next = NA /\ sessions = NA /\ disk = NA
    /\ cookie = NA /\ token = NA /\ request = NA /\ want = NA /\ conf = NA
    /\ loaded = NA /\ kind = NA /\ resolv = NA /\ dropin = NA
    /\ original = NA /\ ra = NA /\ originals = NA /\ present = NA
    /\ managed = NA /\ job = NA /\ ok = NA /\ had = NA /\ before = NA
    /\ moves = NA /\ hand = NA /\ live = NA /\ pc = NA /\ at = NA
    /\ held = NA /\ revert = NA /\ edit = NA /\ running = NA /\ dbOpen = NA
    /\ failed = NA /\ rolled = NA /\ lost = NA /\ stops = NA /\ file = NA
    /\ legacy = NA /\ addr = NA /\ backup = NA /\ may = NA /\ otherTrial = NA
TheDevicesRest ==
    UNCHANGED <<which, vars,
        password, next, sessions, disk, cookie, token, request, want, conf,
        loaded, kind, resolv, dropin, original, ra, originals, present,
        managed, job, ok, had, before, moves, hand, live, pc, at, held,
        revert, edit, running, dbOpen, failed, rolled, lost, stops, file,
        legacy, addr, backup, may, otherTrial>>
TheDevicesNext ==
    which = "devices" /\ TheDevices!Next /\ TheDevicesRest

TheHostInit ==
    /\ which = "host" /\ TheHost!Init /\ Init
    /\ password = NA /\ next = NA /\ sessions = NA /\ disk = NA
    /\ cookie = NA /\ token = NA /\ request = NA /\ now = NA /\ doc = NA
    /\ lan = NA /\ records = NA /\ dirty = NA /\ db = NA /\ known = NA
    /\ saved = NA /\ live = NA /\ pc = NA /\ at = NA /\ held = NA
    /\ revert = NA /\ edit = NA /\ running = NA /\ dbOpen = NA /\ failed = NA
    /\ rolled = NA /\ lost = NA /\ stops = NA /\ file = NA /\ legacy = NA
    /\ addr = NA /\ backup = NA /\ may = NA /\ otherTrial = NA
TheHostRest ==
    UNCHANGED <<which, vars,
        password, next, sessions, disk, cookie, token, request, now, doc,
        lan, records, dirty, db, known, saved, live, pc, at, held, revert,
        edit, running, dbOpen, failed, rolled, lost, stops, file, legacy,
        addr, backup, may, otherTrial>>
TheHostNext ==
    which = "host" /\ TheHost!Next /\ TheHostRest

EditedHostInit ==
    /\ which = "edited" /\ EditedHost!Init /\ Init
    /\ password = NA /\ next = NA /\ sessions = NA /\ disk = NA
    /\ cookie = NA /\ token = NA /\ request = NA /\ now = NA /\ doc = NA
    /\ lan = NA /\ records = NA /\ dirty = NA /\ db = NA /\ known = NA
    /\ saved = NA /\ live = NA /\ pc = NA /\ at = NA /\ held = NA
    /\ revert = NA /\ edit = NA /\ running = NA /\ dbOpen = NA /\ failed = NA
    /\ rolled = NA /\ lost = NA /\ stops = NA /\ file = NA /\ legacy = NA
    /\ addr = NA /\ backup = NA /\ may = NA /\ otherTrial = NA
EditedHostRest ==
    UNCHANGED <<which, vars,
        password, next, sessions, disk, cookie, token, request, now, doc,
        lan, records, dirty, db, known, saved, live, pc, at, held, revert,
        edit, running, dbOpen, failed, rolled, lost, stops, file, legacy,
        addr, backup, may, otherTrial>>
EditedHostNext ==
    which = "edited" /\ EditedHost!Next /\ EditedHostRest

TheStartInit ==
    /\ which = "start" /\ TheStart!Init /\ Init
    /\ password = NA /\ next = NA /\ sessions = NA /\ disk = NA
    /\ cookie = NA /\ token = NA /\ request = NA /\ now = NA /\ lan = NA
    /\ records = NA /\ db = NA /\ known = NA /\ saved = NA /\ want = NA
    /\ conf = NA /\ loaded = NA /\ kind = NA /\ resolv = NA /\ dropin = NA
    /\ original = NA /\ ra = NA /\ originals = NA /\ present = NA
    /\ managed = NA /\ job = NA /\ ok = NA /\ had = NA /\ before = NA
    /\ moves = NA /\ hand = NA /\ file = NA /\ legacy = NA /\ addr = NA
    /\ backup = NA /\ may = NA
TheStartRest ==
    UNCHANGED <<which, vars,
        password, next, sessions, disk, cookie, token, request, now, lan,
        records, db, known, saved, want, conf, loaded, kind, resolv, dropin,
        original, ra, originals, present, managed, job, ok, had, before,
        moves, hand, file, legacy, addr, backup, may>>
TheStartNext ==
    which = "start" /\ TheStart!Next /\ TheStartRest

TheStoreInit ==
    /\ which = "store" /\ TheStore!Init /\ Init
    /\ password = NA /\ next = NA /\ sessions = NA /\ disk = NA
    /\ cookie = NA /\ token = NA /\ request = NA /\ now = NA /\ doc = NA
    /\ lan = NA /\ records = NA /\ dirty = NA /\ db = NA /\ known = NA
    /\ saved = NA /\ want = NA /\ conf = NA /\ loaded = NA /\ kind = NA
    /\ resolv = NA /\ dropin = NA /\ original = NA /\ ra = NA
    /\ originals = NA /\ present = NA /\ managed = NA /\ job = NA /\ ok = NA
    /\ had = NA /\ before = NA /\ moves = NA /\ live = NA /\ at = NA
    /\ held = NA /\ revert = NA /\ edit = NA /\ running = NA /\ dbOpen = NA
    /\ failed = NA /\ rolled = NA /\ lost = NA /\ stops = NA
TheStoreRest ==
    UNCHANGED <<which, vars,
        password, next, sessions, disk, cookie, token, request, now, doc,
        lan, records, dirty, db, known, saved, want, conf, loaded, kind,
        resolv, dropin, original, ra, originals, present, managed, job, ok,
        had, before, moves, live, at, held, revert, edit, running, dbOpen,
        failed, rolled, lost, stops>>
TheStoreNext ==
    which = "store" /\ TheStore!Next /\ TheStoreRest

SystemInit ==
    \/ TheRemoteInit \/ TheAccessInit \/ TheDevicesInit \/ TheHostInit
    \/ EditedHostInit \/ TheStartInit \/ TheStoreInit
SystemNext ==
    \/ TheRemoteNext \/ TheAccessNext \/ TheDevicesNext \/ TheHostNext
    \/ EditedHostNext \/ TheStartNext \/ TheStoreNext

SystemSpec == SystemInit /\ [][SystemNext]_all

(***************************************************************************)
(* Properties.                                                             *)
(***************************************************************************)
(* Access: whoever changes the document is signed in when the change is    *)
(* made: an expired session, one revoked while the request waited for the  *)
(* lock and one a crash left behind are refused; and a session is issued   *)
(* under the password stored at that moment, also when it changes between  *)
(* the comparison and the lock (system/auth.go:13, sessions.go:178,        *)
(* http.go:181).                                                           *)
SignedInOnly == [][which = "access" => TheAccess!SignedInOnly]_all

(* Devices: whatever edits were accepted the groups form a tree; a group   *)
(* can always be removed or renamed, and every device then sits under      *)
(* exactly the groups it sat under; and a device whose name was recorded   *)
(* keeps one for as long as it is heard, through lapsed leases, failed     *)
(* writes and crashes (validate.go:190, config.go:339, seen.go:383).       *)
DevicesKept ==
    which = "devices" => TheDevices!Tree /\ TheDevices!PlacesKept /\ TheDevices!NameLasts

(* Host: an interface olr holds no original for has the addressing the     *)
(* host itself last gave it; while resolv.conf is olr's, the file it       *)
(* replaced is kept, never olr's own; and an apply that succeeds with      *)
(* nothing wanted leaves no block, no drop-in and no setting of olr's      *)
(* behind, whatever failed or crashed before (ipv6.go:100, resolv.go:154,  *)
(* host.go:140).                                                           *)
HostHandedBack ==
    /\ which = "host" => TheHost!HandedBack /\ TheHost!OriginalKept /\ TheHost!LeavesNothing
    /\ which = "edited" => EditedHost!HandedBack /\ EditedHost!OriginalKept

(* Start: when systemd is told the daemon is ready, everything stored is   *)
(* in force again but what failed, after a reboot, a crash between saving  *)
(* and applying, or an interrupted change rolled back; and a clean stop    *)
(* saves every observation, those made while it was stopping included      *)
(* (daemon.go:1083, :1160).                                                *)
RestartLosesNothing == which = "start" => TheStart!Restored /\ TheStart!StopSaves

(* Store: whatever conversions, failed saves, crashes, abandoned trials    *)
(* and failed restores came before, each section holds what was last       *)
(* written to it, and no document on disk has a pool keyed by a network it *)
(* does not have (store.go:215, store.go:285, backup.go:159,               *)
(* migrate.go:111).                                                        *)
DocumentKept == which = "store" => TheStore!DocumentKept
=============================================================================
