-------------------------------- MODULE Skf --------------------------------
(***************************************************************************)
(* The USB key library (src/lib/skfApi): vendors' libraries loaded by path *)
(* and kept in a cache, the handles of device, application and container   *)
(* they give out, the engine that holds three of them for OpenSSL, and the *)
(* two utilities that open handles of their own: the check of a            *)
(* certificate's issuer and the enumeration of everything plugged in.      *)
(*                                                                         *)
(* The engine is called by one thread, the utilities by another, each with *)
(* an SKFApi object of its own; the cache of libraries is common.  What a  *)
(* vendor's function answers is free, and a call that fails gives no       *)
(* handle.  Certificates are good or not; names are told apart, no more.   *)
(***************************************************************************)
EXTENDS Integers, Sequences, FiniteSets, SequencesExt

CONSTANTS
  Libs,         \* paths of libraries
  Complete,     \* those that export every function loadFunc asks for
  Devs, Apps, Containers, \* names a vendor may list
  NoLib, Null, Closed, Abandoned,
  MaxAbandoned  \* bound on the handles whose closing the vendor refuses

ASSUME LibsAssumption == Complete \subseteq Libs /\ NoLib \notin Libs
ASSUME BoundAssumption == MaxAbandoned \in Nat

Engine == "s_skfApi"
Utils == "LibSkfUtils"
Objects == {Engine, Utils}

(* The levels of a key: a device, an application in it, a container there. *)
Levels == 1 .. 3
Names == <<Devs, Apps, Containers>>
Paths == {<<d>> : d \in Devs} \cup (Devs \X Apps) \cup (Devs \X Apps \X Containers)

(* A handle names the object that asked for it; the vendor reuses numbers. *)
Handles == Objects \X (1 .. 3 + MaxAbandoned)

(* What the vendor knows of a handle that is open. *)
Opened == [lib : Libs, level : Levels, up : Handles \cup {Null}, pin : BOOLEAN]

ASSUME MarksAssumption ==
  /\ Null \notin Handles
  /\ Closed # Abandoned /\ {Closed, Abandoned} \cap Opened = {}

VARIABLES
  cache,      \* s_mapCache
  mapped,     \* libraries mapped into the process
  lib,        \* library each object works with; NoLib while ~m_isApiInit
  vendor,     \* what each handle stands for; Closed, or Abandoned when the
              \* vendor refused to close it
  key,        \* each object's handles by level (Usbkey, or locals of enumAllInfo)
  pc, op, rv, \* where each object is, in which operation, and its answer
  pin,        \* the utility was given a PIN
  libsLeft,   \* enumAllInfo: paths not yet tried
  left,       \* names not yet tried, by level
  path,       \* names of the handles now open
  found,      \* by level: what tempApp, tempDev and devInfoList hold
  told,       \* what came of each name the vendor listed; Leave reads the
              \* entry it leaves, the rest is history
  infos,      \* libraries in ukeyInfos
  aborted     \* the process has died of an assertion

libVars == <<cache, mapped, lib>>
callVars == <<pc, op, rv>>
walkVars == <<left, path, found, told>>
enumVars == <<libsLeft, walkVars, infos>>
vars == <<libVars, vendor, key, callVars, pin, enumVars, aborted>>

NoKey == [l \in Levels |-> Null]
Unlisted == [p \in Paths |-> "unlisted"]

Init ==
  /\ cache = {} /\ mapped = {} /\ lib = [o \in Objects |-> NoLib]
  /\ vendor = [h \in Handles |-> Closed]
  /\ key = [o \in Objects |-> NoKey]
  /\ pc = [o \in Objects |-> "idle"]
  /\ op = [o \in Objects |-> "none"] /\ rv = [o \in Objects |-> "ok"]
  /\ pin = FALSE
  /\ libsLeft = {} /\ left = [l \in Levels |-> {}] /\ path = <<>>
  /\ found = [l \in Levels |-> {}] /\ told = Unlisted /\ infos = {}
  /\ aborted = FALSE

----------------------------------------------------------------------------
(* A vendor's functions                                                    *)

(* The number of levels down to the deepest handle the object holds.       *)
Depth(o) == Max({0} \cup {l \in Levels : key[o][l] # Null})

Above(o, l) == IF l = 1 THEN Null ELSE key[o][l - 1]

(* SKF_ConnectDev, SKF_OpenApplication and SKF_OpenContainer: a fresh      *)
(* handle of the level asked for, under the handle given.                  *)
Gives(o, l) ==
  LET n == Min({i \in 1 .. 3 + MaxAbandoned : vendor[<<o, i>>] = Closed})
  IN  /\ lib[o] # NoLib
      /\ vendor' = [vendor EXCEPT ![<<o, n>>] =
                      [lib |-> lib[o], level |-> l, up |-> Above(o, l), pin |-> FALSE]]
      /\ key' = [key EXCEPT ![o][l] = <<o, n>>]

Refusals == Cardinality({h \in Handles : vendor[h] = Abandoned})

(* closeContainer, closeApp, disConnectDev: whatever they return, the      *)
(* caller forgets the handle; without a library they do not ask the vendor.*)
Forgets(o, l) ==
  /\ key' = [key EXCEPT ![o][l] = Null]
  /\ vendor' \in
       IF lib[o] = NoLib THEN {vendor}
       ELSE {[vendor EXCEPT ![key[o][l]] = what] :
               what \in {Closed} \cup {Abandoned : n \in Refusals + 1 .. MaxAbandoned}}

(* A function is missing: initApi of Windows frees the library again, that *)
(* of Linux returns from the middle of loadFunc and leaves it mapped.      *)
Incomplete(o, l) ==
  /\ l \notin cache \cup Complete
  /\ mapped' \in {mapped, mapped \cup {l}}
  /\ lib' = [lib EXCEPT ![o] = NoLib]

(* Mutant: the library is cached before its functions are looked up.       *)
LoadsCachesFirst(o, l) ==
  \/ /\ l \in cache \cup Complete
     /\ cache' = cache \cup {l} /\ mapped' = mapped \cup {l}
     /\ lib' = [lib EXCEPT ![o] = l]
  \/ Incomplete(o, l) /\ cache' = cache \cup {l}
  \/ /\ l \notin cache
     /\ lib' = [lib EXCEPT ![o] = NoLib]
     /\ UNCHANGED <<cache, mapped>>

(* initApi, from the lock of the cache on: the cached library, or a new    *)
(* one, cached once it has proved complete; one that is incomplete; one    *)
(* that does not load.                                                     *)
Loads(o, l) ==
  \/ /\ l \in cache \cup Complete
     /\ cache' = cache \cup {l} /\ mapped' = mapped \cup {l}
     /\ lib' = [lib EXCEPT ![o] = l]
  \/ Incomplete(o, l) /\ UNCHANGED cache
  \/ /\ l \notin cache
     /\ lib' = [lib EXCEPT ![o] = NoLib]
     /\ UNCHANGED <<cache, mapped>>

Answer(o) == rv' = [rv EXCEPT ![o] = IF lib'[o] = NoLib THEN "fail" ELSE "ok"]
Goes(o, place) ==
  /\ pc' = [pc EXCEPT ![o] = place]
  /\ op' = IF place = "idle" THEN [op EXCEPT ![o] = "none"] ELSE op

Begins(o, operation, place, answer) ==
  /\ pc[o] = "idle"
  /\ op' = [op EXCEPT ![o] = operation]
  /\ rv' = [rv EXCEPT ![o] = answer]
  /\ pc' = [pc EXCEPT ![o] = place]

----------------------------------------------------------------------------
(* openUsbkey and closeUsbkey                                              *)

(* One handle of closeUsbkey, the deepest first.                           *)
CloseKey(o) ==
  /\ pc[o] = "close"
  /\ Depth(o) > 0
  /\ Forgets(o, Depth(o))
  /\ UNCHANGED <<libVars, callVars, pin, enumVars, aborted>>

(* Nothing is left to close: initApi loads, openUsbkey opens, and a call   *)
(* that has its answer returns it.                                         *)
KeyClosed(o) ==
  /\ pc[o] = "close"
  /\ Depth(o) = 0
  /\ Goes(o, IF rv[o] # "none" THEN "idle" ELSE IF op[o] = "initApi" THEN "load" ELSE "open")
  /\ IF o = Utils /\ rv[o] # "none"
       THEN lib' = [lib EXCEPT ![o] = NoLib] /\ pin' = FALSE
       ELSE UNCHANGED <<lib, pin>>
  /\ UNCHANGED <<cache, mapped, vendor, key, rv, enumVars, aborted>>

WantsPin(o) == o = Engine \/ pin

(* connectDev, openApp, openContainer, with verifyPin between the last two.*)
OpenNext(o) ==
  /\ pc[o] = "open"
  /\ LET l == Depth(o) + 1
     IN  /\ Gives(o, l)
         /\ Goes(o, CASE l = 2 /\ WantsPin(o) -> "pin"
                      [] l = 3 /\ o = Engine -> "idle"
                      [] l = 3 /\ o = Utils -> "cert"
                      [] OTHER -> "open")
         /\ rv' = IF l = 3 THEN [rv EXCEPT ![o] = "ok"] ELSE rv
  /\ UNCHANGED <<libVars, pin, enumVars, aborted>>

VerifyPin(o) ==
  /\ pc[o] = "pin"
  /\ vendor' = [vendor EXCEPT ![key[o][2]].pin = TRUE]
  /\ Goes(o, "open")
  /\ UNCHANGED <<libVars, key, rv, pin, enumVars, aborted>>

(* A step of openUsbkey fails, or there is no library to ask.              *)
OpenFails(o) ==
  /\ pc[o] \in {"open", "pin"}
  /\ rv' = [rv EXCEPT ![o] = "fail"]
  /\ Goes(o, "close")
  /\ UNCHANGED <<libVars, vendor, key, pin, enumVars, aborted>>

----------------------------------------------------------------------------
(* LibSkf and the functions for OpenSSL                                    *)

(* isEngineInit *)
EngineReady == \A l \in Levels : key[Engine][l] # Null

(* Mutant: the key that the library before gave is not closed. *)
InitApiLoads ==
  /\ Begins(Engine, "initApi", "load", "none")
  /\ UNCHANGED <<libVars, vendor, key, pin, enumVars, aborted>>

InitApi ==
  /\ Begins(Engine, "initApi", "close", "none")
  /\ UNCHANGED <<libVars, vendor, key, pin, enumVars, aborted>>

LoadApi ==
  /\ pc[Engine] = "load"
  /\ \E l \in Libs : Loads(Engine, l)
  /\ Answer(Engine)
  /\ Goes(Engine, "idle")
  /\ UNCHANGED <<vendor, key, pin, enumVars, aborted>>

InitEngine ==
  /\ Begins(Engine, "initEngine", "close", "none")
  /\ UNCHANGED <<libVars, vendor, key, pin, enumVars, aborted>>

UninitEngine ==
  /\ Begins(Engine, "uninitEngine", "close", "ok")
  /\ UNCHANGED <<libVars, vendor, key, pin, enumVars, aborted>>

(* A call with a null argument. *)
Refuse(o) ==
  /\ pc[o] = "idle"
  /\ rv' = [rv EXCEPT ![o] = "fail"]
  /\ UNCHANGED <<libVars, vendor, key, pc, op, pin, enumVars, aborted>>

(* Mutant: no NEED_ENGINE. *)
UsesUnchecked(l) ==
  /\ pc[Engine] = "idle"
  /\ rv' \in {[rv EXCEPT ![Engine] = a] : a \in {"ok", "fail"}}
  /\ UNCHANGED <<libVars, vendor, key, pc, op, pin, enumVars, aborted>>

(* An operation on the handle of a level: refused without an engine, else  *)
(* one or two calls of the vendor, which may fail or want more room than   *)
(* the caller has.                                                         *)
Uses(l) ==
  /\ pc[Engine] = "idle"
  /\ \E a \in {"ok", "fail"} :
       /\ a = "ok" => EngineReady /\ vendor[key[Engine][l]] \notin {Closed, Abandoned}
       /\ rv' = [rv EXCEPT ![Engine] = a]
  /\ UNCHANGED <<libVars, vendor, key, pc, op, pin, enumVars, aborted>>

(* sm2Verify asks the device. *)
Verify == Uses(1)

(* sm2DoSign, rsaDoSign *)
Sign == Uses(3)

(* getSm2SignPubkey, exportPublicKey, exportCertificate, getContainerType  *)
Export == Uses(3)

----------------------------------------------------------------------------
(* LibSkfUtils: checkCertByCAIssuer                                        *)

(* Every call of the utilities begins with an SKFApi object of its own.    *)
CheckCert ==
  /\ Begins(Utils, "checkCert", "load", "none")
  /\ pin' \in BOOLEAN
  /\ UNCHANGED <<libVars, vendor, key, enumVars, aborted>>

LoadToCheck ==
  /\ pc[Utils] = "load"
  /\ \E l \in Libs : Loads(Utils, l)
  /\ rv' = IF lib'[Utils] = NoLib THEN [rv EXCEPT ![Utils] = "fail"] ELSE rv
  /\ Goes(Utils, "close")
  /\ UNCHANGED <<vendor, key, pin, enumVars, aborted>>

CertAnswers(answer) ==
  /\ pc[Utils] = "cert"
  /\ rv' = [rv EXCEPT ![Utils] = answer]
  /\ Goes(Utils, "close")
  /\ UNCHANGED <<libVars, vendor, key, pin, enumVars, aborted>>

(* The certificate names the issuer, or check_cert_issuer says no. *)
CertChecked == \E answer \in {"ok", "fail"} : CertAnswers(answer)

(* getCertByContainer fails to export it. *)
CertFails == CertAnswers("fail")

(* The second export fails: getCertByContainer still answers SAR_OK, and   *)
(* front() of the empty certificate is undefined.  The assertion of        *)
(* check_cert_issuer stops the process, or, built without, the check fails *)
(* as in CertChecked.                                                      *)
CertAborts ==
  /\ pc[Utils] = "cert"
  /\ aborted' = TRUE
  /\ UNCHANGED <<libVars, vendor, key, callVars, pin, enumVars>>

----------------------------------------------------------------------------
(* LibSkfUtils: enumAllInfo                                                *)

EnumAll ==
  /\ Begins(Utils, "enumAll", "libs", "fail")
  /\ libsLeft' \in SUBSET Libs
  /\ UNCHANGED <<libVars, vendor, key, pin, walkVars, infos, aborted>>

(* The next library, if it loads; one that does is enough for SAR_OK.      *)
LoadToWalk ==
  /\ pc[Utils] = "libs"
  /\ \E l \in libsLeft : Loads(Utils, l) /\ libsLeft' = libsLeft \ {l}
  /\ IF lib'[Utils] = NoLib THEN UNCHANGED <<rv, pc, op>>
     ELSE rv' = [rv EXCEPT ![Utils] = "ok"] /\ Goes(Utils, "devs")
  /\ UNCHANGED <<vendor, key, pin, walkVars, infos, aborted>>

EnumDone ==
  /\ pc[Utils] = "libs"
  /\ libsLeft = {}
  /\ Goes(Utils, "idle")
  /\ lib' = [lib EXCEPT ![Utils] = NoLib] /\ infos' = {}
  /\ UNCHANGED <<cache, mapped, vendor, key, rv, pin, libsLeft, walkVars, aborted>>

(* The vendor lists some names below the open path.                        *)
Lists ==
  LET l == Len(path) + 1
  IN  \E some \in SUBSET Names[l] :
        /\ left' = [left EXCEPT ![l] = some]
        /\ told' = [p \in Paths |->
                      CASE p = path -> "good"
                        [] p \in {Append(path, n) : n \in some} -> "listed"
                        [] OTHER -> told[p]]

(* enumDev: a failure is answered with SAR_OK and no name.                 *)
EnumDev ==
  /\ pc[Utils] = "devs"
  /\ Lists
  /\ Goes(Utils, "walk")
  /\ UNCHANGED <<libVars, vendor, key, rv, pin, libsLeft, path, found, infos, aborted>>

Told(p, what) == told' = [told EXCEPT ![p] = what]

(* connectDev, openApp, openContainer of the next name at this level.      *)
Enter ==
  /\ pc[Utils] = "walk"
  /\ Len(path) < 3
  /\ LET l == Len(path) + 1
     IN  \E n \in left[l] :
           /\ left' = [left EXCEPT ![l] = @ \ {n}]
           /\ path' = Append(path, n)
           /\ Gives(Utils, l)
  /\ Goes(Utils, "ask")
  /\ UNCHANGED <<libVars, rv, pin, libsLeft, found, told, infos, aborted>>

(* It does not open: continue with the next. *)
Skip ==
  /\ pc[Utils] = "walk"
  /\ Len(path) < 3
  /\ LET l == Len(path) + 1
     IN  \E n \in left[l] :
           /\ left' = [left EXCEPT ![l] = @ \ {n}]
           /\ Told(Append(path, n), "refused")
  /\ UNCHANGED <<libVars, vendor, key, callVars, pin, libsLeft, path, found, infos, aborted>>

AskNames ==
  /\ pc[Utils] = "ask"
  /\ Lists
  /\ Goes(Utils, "walk")
  /\ UNCHANGED <<libVars, vendor, key, rv, pin, libsLeft, path, found, infos, aborted>>

(* enumApp *)
AskApps == Len(path) = 1 /\ AskNames

(* enumContainer *)
AskContainers == Len(path) = 2 /\ AskNames

(* enumApp or enumContainer fails: close the handle and continue.          *)
AskFails ==
  /\ pc[Utils] = "ask"
  /\ Len(path) < 3
  /\ Told(path, "mute")
  /\ Goes(Utils, "leave")
  /\ UNCHANGED <<libVars, vendor, key, rv, pin, libsLeft, left, path, found, infos, aborted>>

(* What getCertUserNameAndIssuer thinks of a certificate: it is good, or   *)
(* empty, unreadable or expired.                                           *)
CertVerdicts == {"good", "mute"}

(* getCertByContainerName: a failed export leaves the certificate empty.   *)
AskCert ==
  /\ pc[Utils] = "ask"
  /\ Len(path) = 3
  /\ \E verdict \in CertVerdicts : Told(path, verdict)
  /\ Goes(Utils, "leave")
  /\ UNCHANGED <<libVars, vendor, key, rv, pin, libsLeft, left, path, found, infos, aborted>>

AllTried == pc[Utils] = "walk" /\ left[Len(path) + 1] = {}
MayLeave == path # <<>> /\ (pc[Utils] = "leave" \/ AllTried)

(* The entry goes, with what was found below it, into the list above.      *)
Kept(l) ==
  [i \in Levels |->
     CASE i = l -> found[l] \cup {path} \cup (IF l = 3 THEN {} ELSE found[l + 1])
       [] i = l + 1 -> {}
       [] OTHER -> found[i]]

(* Mutant: a handle whose names cannot be listed is not closed. *)
LeaveOpen ==
  /\ MayLeave
  /\ IF told[path] = "good" THEN Forgets(Utils, Len(path))
     ELSE key' = [key EXCEPT ![Utils][Len(path)] = Null] /\ UNCHANGED vendor
  /\ found' = IF told[path] = "good" THEN Kept(Len(path)) ELSE found
  /\ path' = Front(path)
  /\ Goes(Utils, "walk")
  /\ UNCHANGED <<libVars, rv, pin, libsLeft, left, told, infos, aborted>>

(* Mutant: an entry is kept although its names could not be listed. *)
LeaveReports ==
  /\ MayLeave
  /\ Forgets(Utils, Len(path))
  /\ found' = Kept(Len(path))
  /\ path' = Front(path)
  /\ Goes(Utils, "walk")
  /\ UNCHANGED <<libVars, rv, pin, libsLeft, left, told, infos, aborted>>

(* Closes the handle, and keeps the entry if all went well.                *)
Leave ==
  /\ MayLeave
  /\ Forgets(Utils, Len(path))
  /\ found' = IF told[path] = "good" THEN Kept(Len(path)) ELSE found
  /\ path' = Front(path)
  /\ Goes(Utils, "walk")
  /\ UNCHANGED <<libVars, rv, pin, libsLeft, left, told, infos, aborted>>

(* A library without devices is not reported. *)
LibDone ==
  /\ path = <<>>
  /\ AllTried
  /\ infos' = IF found[1] = {} THEN infos ELSE infos \cup {lib[Utils]}
  /\ found' = [l \in Levels |-> {}] /\ told' = Unlisted
  /\ Goes(Utils, "libs")
  /\ UNCHANGED <<libVars, vendor, key, rv, pin, libsLeft, left, path, aborted>>

----------------------------------------------------------------------------
Key ==
  \E o \in Objects :
    CloseKey(o) \/ KeyClosed(o) \/ OpenNext(o) \/ VerifyPin(o) \/ OpenFails(o) \/ Refuse(o)
Library == InitApi \/ LoadApi \/ InitEngine \/ UninitEngine \/ Verify \/ Sign \/ Export
Check == CheckCert \/ LoadToCheck \/ CertChecked \/ CertFails \/ CertAborts
Enumerate ==
  \/ EnumAll \/ LoadToWalk \/ EnumDev \/ Enter \/ Skip \/ AskApps \/ AskContainers
  \/ AskFails \/ AskCert \/ Leave \/ LibDone \/ EnumDone

(* A process that has aborted does nothing more. *)
Aborted == aborted /\ UNCHANGED vars

Next == (~aborted /\ (Key \/ Library \/ Check \/ Enumerate)) \/ Aborted

Spec == Init /\ [][Next]_vars

----------------------------------------------------------------------------
Places == {"idle", "close", "load", "open", "pin", "cert", "libs", "devs", "walk", "ask", "leave"}
Operations == {"none", "initApi", "initEngine", "uninitEngine", "checkCert", "enumAll"}
Answers == {"none", "ok", "fail"}
Verdicts == {"unlisted", "listed", "refused", "mute", "good"}

(* The variables keep their types, and a call that has returned has an     *)
(* answer.                                                                 *)
TypeOK ==
  /\ pin \in BOOLEAN /\ aborted \in BOOLEAN
  /\ cache \subseteq Libs /\ mapped \subseteq Libs
  /\ lib \in [Objects -> Libs \cup {NoLib}]
  /\ vendor \in [Handles -> Opened \cup {Closed, Abandoned}]
  /\ key \in [Objects -> [Levels -> Handles \cup {Null}]]
  /\ pc \in [Objects -> Places] /\ op \in [Objects -> Operations] /\ rv \in [Objects -> Answers]
  /\ \A o \in Objects : pc[o] = "idle" => rv[o] # "none"
  /\ libsLeft \subseteq Libs /\ infos \subseteq Libs
  /\ left \in [Levels -> SUBSET (Devs \cup Apps \cup Containers)]
  /\ \A l \in Levels : left[l] \subseteq Names[l]
  /\ found \in [Levels -> SUBSET Paths]
  /\ path \in Paths \cup {<<>>}
  /\ told \in [Paths -> Verdicts]

(* A handle in a key is one the vendor still has open, of its level, under *)
(* the handle of the level above, and given by the library that the object *)
(* now works with: neither an operation nor a close ever reaches another   *)
(* library's function.  A ready engine's application has seen the PIN.     *)
KeyValid ==
  /\ \A o \in Objects, l \in Levels :
       key[o][l] # Null =>
         LET h == vendor[key[o][l]]
         IN  h \notin {Closed, Abandoned} /\ h.lib = lib[o] /\ h.level = l /\ h.up = Above(o, l)
  /\ EngineReady => vendor[key[Engine][2]].pin

(* On every path through openUsbkey, enumAllInfo and their callers each    *)
(* handle that was opened is closed: what is open is in a key or was       *)
(* refused by the vendor, the utilities hold nothing between their calls,  *)
(* and the engine holds a whole key or none.                               *)
NothingLeaks ==
  /\ \A h \in Handles :
       vendor[h] \notin {Closed, Abandoned} => \E o \in Objects, l \in Levels : key[o][l] = h
  /\ pc[Utils] = "idle" => key[Utils] = NoKey
  /\ pc[Engine] = "idle" => EngineReady \/ key[Engine] = NoKey

(* s_mapCache holds complete libraries that are still mapped, and an       *)
(* object works only with one of them.                                     *)
CacheMapped ==
  /\ cache \subseteq Complete \cap mapped
  /\ \A o \in Objects : lib[o] # NoLib => lib[o] \in cache

(* When enumAllInfo is through with a library, it has tried every name     *)
(* that the vendor listed, and devInfoList holds exactly those that could  *)
(* be opened and read, whatever failed beside them.  It answers SAR_FAIL   *)
(* only when no library loaded, and reports none then.                     *)
EnumerationTrue ==
  /\ path = <<>> /\ AllTried =>
       /\ \A p \in Paths : told[p] # "listed"
       /\ found[1] = {p \in Paths : told[p] = "good"}
  /\ pc[Utils] = "libs" /\ rv[Utils] = "fail" => infos = {}

(* The engine keeps what it promises its caller. *)
TheEngine == INSTANCE KeyEngine WITH
  ready <- EngineReady,
  call <- IF pc[Engine] = "idle" THEN "none" ELSE op[Engine],
  result <- IF pc[Engine] = "idle" THEN rv[Engine] ELSE "none"

ImplementsEngine == TheEngine!Spec
============================================================================
