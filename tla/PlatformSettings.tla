--------------------------- MODULE PlatformSettings ---------------------------
(***************************************************************************)
(* The settings administrators change and every visitor reads: the bank    *)
(* account, the closing of the storefront, the pictures of the login page, *)
(* the weights of the search and its synonyms. Each is a row with a copy   *)
(* in Redis that lives 60 seconds. A reader may write both: the copy, and, *)
(* once the closing is over, the row of the storefront.                    *)
(***************************************************************************)
EXTENDS Integers, FiniteSets

CONSTANTS
    Req,          \* slots: requests that may be in flight at once
    Setting,      \* the settings of this instance
    MaxTime,      \* bound on the clock
    MaxUpdates,   \* bound on the administrators' requests
    MaxFaults     \* bound on the calls to Redis that fail

SettingsAssumption ==
    /\ Setting \subseteq {"bank", "maintenance", "login", "weights", "synonyms"}
    /\ MaxTime \in Nat /\ MaxUpdates \in Nat /\ MaxFaults \in Nat

VARIABLES
    row,       \* settings, search_synonyms
    cache,     \* the copies in Redis
    now,
    word,      \* what the administrators' saves amount to, in their order
    updates, faults,
    job        \* requests in flight

vars == <<row, cache, now, word, updates, faults, job>>

None == [none |-> TRUE]
Image == {"none", "i1", "i2"}
Synonym == {"s1", "s2"}

(* A setting's value. An account is one name for all its details, a closing *)
(* lasts until a time or, with 0, until it is ended.                        *)
Value(s) ==
    CASE s = "bank" -> [enabled : BOOLEAN, account : {"none", "a1", "a2"}]
      [] s = "maintenance" -> [enabled : BOOLEAN, reason : {"none", "UPDATE", "OTHER"}, message : BOOLEAN, untilAt : 0..MaxTime]
      [] s = "login" -> [desktop : Image, mobile : Image]
      [] s = "weights" -> [text : 1..2, rrfK : 1..2]
      [] s = "synonyms" -> [active : SUBSET Synonym]

Default(s) ==
    CASE s = "bank" -> [enabled |-> FALSE, account |-> "none"]
      [] s = "maintenance" -> [enabled |-> FALSE, reason |-> "none", message |-> FALSE, untilAt |-> 0]
      [] s = "login" -> [desktop |-> "none", mobile |-> "none"]
      [] s = "weights" -> [text |-> 1, rrfK |-> 1]
      [] s = "synonyms" -> [active |-> {}]

(* normalizeValue, mergeWithDefaults, the query for the active synonyms.   *)
Load(s) == IF row[s] = None THEN Default(s) ELSE row[s]

(* The services that catch what Redis throws; the other two pass it on.    *)
FailsOpen(s) == s \in {"bank", "maintenance", "login"}

(* asked: the fields a request changes, as a function from the value that  *)
(* it read to the one it saves.                                            *)
Idle == [at |-> "idle", op |-> "get", s |-> "none", v |-> None, asked |-> None]
Job == [at : {"idle", "readCache", "load", "fill", "judge", "find", "insert", "save", "write"},
        op : {"get", "update", "clearMobile", "reopen"}, s : Setting \cup {"none"},
        v : UNION {Value(s) : s \in Setting} \cup {None},
        asked : UNION {Value(s) : s \in Setting} \cup {None}
                  \cup [field : {"text", "rrfK"}, to : 1..2] \cup [synonym : Synonym, active : BOOLEAN]]

Init ==
    /\ row = [s \in Setting |-> None]
    /\ cache = [s \in Setting |-> None]
    /\ now = 0
    /\ word = [s \in Setting |-> Default(s)]
    /\ updates = 0 /\ faults = 0
    /\ job = [r \in Req |-> Idle]

Return(r) == job' = [job EXCEPT ![r] = Idle]
Goto(r, at, v) == job' = [job EXCEPT ![r].at = at, ![r].v = v]
Fault == faults < MaxFaults /\ faults' = faults + 1

-----------------------------------------------------------------------------
(* Reading                                                                 *)

(* get, getConfigured, isAvailableNow, getRankingWeights, expandQuery.     *)
get(r, s) ==
    /\ job[r].at = "idle"
    /\ job' = [job EXCEPT ![r] = [Idle EXCEPT !.at = "readCache", !.s = s]]
    /\ UNCHANGED <<row, cache, now, word, updates, faults>>

(* readCache. Without a connection RedisService.get answers null; a call   *)
(* that throws is a miss, or the end of the request.                       *)
readCache(r) ==
    LET s == job[r].s
    IN
    /\ job[r].at = "readCache"
    /\ \/ cache[s] # None /\ Goto(r, "judge", cache[s]) /\ UNCHANGED faults
       \/ cache[s] = None /\ Goto(r, "load", None) /\ UNCHANGED faults
       \/ Fault /\ Goto(r, "load", None)
       \/ Fault /\ ~FailsOpen(s) /\ Return(r)
    /\ UNCHANGED <<row, cache, now, word, updates>>

loadFromDb(r) ==
    /\ job[r].at = "load"
    /\ Goto(r, "fill", Load(job[r].s))
    /\ UNCHANGED <<row, cache, now, word, updates, faults>>

(* writeCache with what was loaded, however old it is by now.              *)
fillCache(r) ==
    LET s == job[r].s
    IN
    /\ job[r].at = "fill"
    /\ \/ cache' = [cache EXCEPT ![s] = job[r].v] /\ Goto(r, "judge", job[r].v) /\ UNCHANGED faults
       \/ Fault /\ Goto(r, "judge", job[r].v) /\ UNCHANGED cache
       \/ Fault /\ ~FailsOpen(s) /\ Return(r) /\ UNCHANGED cache
    /\ UNCHANGED <<row, now, word, updates>>

(* The closing is over.                                                    *)
Elapsed(v) == v.enabled /\ v.untilAt # 0 /\ v.untilAt <= now

(* A reader answers; applyAutoReopen first saves the open storefront. A    *)
(* change of weights goes on with the weights it read.                     *)
judge(r) ==
    LET j == job[r]
    IN
    /\ j.at = "judge"
    /\ \/ /\ j.op = "get"
          /\ \/ j.s = "maintenance" /\ Elapsed(j.v)
                  /\ job' = [job EXCEPT ![r].at = "find", ![r].op = "reopen", ![r].v = Default(j.s)]
             \/ ~(j.s = "maintenance" /\ Elapsed(j.v)) /\ Return(r)
       \/ j.op = "update" /\ Goto(r, "find", [j.v EXCEPT ![j.asked.field] = j.asked.to])
    /\ UNCHANGED <<row, cache, now, word, updates, faults>>

-----------------------------------------------------------------------------
(* Changing                                                                *)

Ask(r, op, s, at, v, asked) ==
    /\ s \in Setting
    /\ job[r].at = "idle"
    /\ updates < MaxUpdates
    /\ updates' = updates + 1
    /\ job' = [job EXCEPT ![r] = [at |-> at, op |-> op, s |-> s, v |-> v, asked |-> asked]]
    /\ UNCHANGED <<row, cache, now, word, faults>>

(* requireTrimmed: an account is never saved without its details.          *)
updateBankTransferDetails(r, enabled, account) ==
    /\ account # "none"
    /\ Ask(r, "update", "bank", "find", [enabled |-> enabled, account |-> account], None)

(* A closing has a reason, the reason OTHER a message, and an end that is  *)
(* still to come; opening clears all of it.                                *)
Closings == {v \in Value("maintenance") : v.enabled /\ v.reason # "none" /\ (v.reason = "OTHER" => v.message)
                                            /\ (v.untilAt # 0 => v.untilAt > now)}

updateStorefrontMaintenance(r, v) ==
    /\ v = Default("maintenance") \/ v \in Closings
    /\ Ask(r, "update", "maintenance", "find", v, None)

updateConfigured(r, desktop, mobile) ==
    /\ desktop # "none"
    /\ Ask(r, "update", "login", "find", [desktop |-> desktop, mobile |-> mobile], None)

clearDesktop(r) == Ask(r, "update", "login", "find", Default("login"), None)

(* getFromDb, then the value without its mobile picture: of an empty row   *)
(* that is the empty value.                                                *)
clearMobile(r) ==
    Ask(r, "clearMobile", "login", "find", [Load("login") EXCEPT !.mobile = "none"], None)

(* The weights are merged with those the cache, or the row, holds.         *)
updateRankingWeights(r, field, to) ==
    Ask(r, "update", "weights", "readCache", None, [field |-> field, to |-> to])

(* create, update and delete of a synonym: one row, saved at once.         *)
saveSynonym(r, t, active) ==
    Ask(r, "update", "synonyms", "save", None, [synonym |-> t, active |-> active])

(* persistAndCache looks for the row, and inserts or updates it.           *)
findRow(r) ==
    /\ job[r].at = "find"
    /\ Goto(r, IF row[job[r].s] = None THEN "insert" ELSE "save", job[r].v)
    /\ UNCHANGED <<row, cache, now, word, updates, faults>>

(* The value that stands for everything the administrators asked, in the   *)
(* order of their saves; nobody asked for a reopening.                     *)
Heard(j) ==
    CASE j.op = "reopen" -> word[j.s]
      [] j.op = "clearMobile" -> [word[j.s] EXCEPT !.mobile = "none"]
      [] j.s = "weights" -> [word[j.s] EXCEPT ![j.asked.field] = j.asked.to]
      [] OTHER -> j.v

Saved(r, v) == row' = [row EXCEPT ![job[r].s] = v] /\ word' = [word EXCEPT ![job[r].s] = Heard([job[r] EXCEPT !.v = v])]

(* The unique key lets one of two inserts through.                         *)
insertRow(r) ==
    /\ job[r].at = "insert"
    /\ \/ row[job[r].s] = None /\ Saved(r, job[r].v) /\ Goto(r, "write", job[r].v)
       \/ row[job[r].s] # None /\ Return(r) /\ UNCHANGED <<row, word>>
    /\ UNCHANGED <<cache, now, updates, faults>>

saveRow(r) ==
    LET j == job[r]
        v == IF j.s # "synonyms" THEN j.v
             ELSE [active |-> (Load(j.s).active \ {j.asked.synonym}) \cup {t \in {j.asked.synonym} : j.asked.active}]
    IN
    /\ j.at = "save"
    /\ Saved(r, v)
    /\ Goto(r, "write", v)
    /\ UNCHANGED <<cache, now, updates, faults>>

(* Mutant: nobody renews the copy of a saved value.                        *)
LeaveCopy(r) ==
    /\ job[r].at = "write"
    /\ Return(r)
    /\ UNCHANGED <<row, cache, now, word, updates, faults>>

(* writeCache puts the saved value, invalidateCache drops the synonyms.    *)
writeCache(r) ==
    LET s == job[r].s
    IN
    /\ job[r].at = "write"
    /\ \/ cache' = [cache EXCEPT ![s] = IF s = "synonyms" THEN None ELSE job[r].v] /\ UNCHANGED faults
       \/ Fault /\ UNCHANGED cache
    /\ Return(r)
    /\ UNCHANGED <<row, now, word, updates>>

-----------------------------------------------------------------------------
(* The copy's time to live ends.                                           *)
Expire(s) ==
    /\ cache[s] # None
    /\ cache' = [cache EXCEPT ![s] = None]
    /\ UNCHANGED <<row, now, word, updates, faults, job>>

Tick ==
    /\ now < MaxTime
    /\ now' = now + 1
    /\ UNCHANGED <<row, cache, word, updates, faults, job>>

Step(r) ==
    \/ readCache(r) \/ loadFromDb(r) \/ fillCache(r) \/ judge(r)
    \/ findRow(r) \/ insertRow(r) \/ saveRow(r) \/ writeCache(r)

Change(r) ==
    \/ \E enabled \in BOOLEAN, account \in {"none", "a1", "a2"} : updateBankTransferDetails(r, enabled, account)
    \/ \E v \in Closings \cup {Default("maintenance")} : updateStorefrontMaintenance(r, v)
    \/ \E desktop, mobile \in Image : updateConfigured(r, desktop, mobile)
    \/ clearDesktop(r)
    \/ "login" \in Setting /\ clearMobile(r)
    \/ \E field \in {"text", "rrfK"}, to \in 1..2 : updateRankingWeights(r, field, to)
    \/ \E t \in Synonym, active \in BOOLEAN : saveSynonym(r, t, active)

Next ==
    \/ \E r \in Req : Step(r) \/ Change(r) \/ \E s \in Setting : get(r, s)
    \/ \E s \in Setting : Expire(s)
    \/ Tick

Spec == Init /\ [][Next]_vars

(* The storefront is still closed, though its closing is over.             *)
Overdue == Elapsed(Load("maintenance"))

-----------------------------------------------------------------------------
(* Properties                                                              *)

(* Every variable has its type.                                            *)
TypeOK ==
    /\ \A s \in Setting : row[s] \in Value(s) \cup {None} /\ cache[s] \in Value(s) \cup {None}
    /\ \A s \in Setting : word[s] \in Value(s)
    /\ now \in 0..MaxTime /\ updates \in 0..MaxUpdates /\ faults \in 0..MaxFaults
    /\ job \in [Req -> Job]

(* One request at a time and no failure: the row holds what the            *)
(* administrators asked for, change upon change, or the storefront is open *)
(* because its closing is over, and the copy, but for the one about to be  *)
(* written, is what the row holds. Changes of weights start from the copy. *)
LastWordCounts ==
    \A s \in Setting :
        /\ Load(s) = word[s] \/ (s = "maintenance" /\ Load(s) = Default(s) /\ Elapsed(word[s]))
        /\ (\A r \in Req : job[r].at # "write") => cache[s] \in {None, Load(s)}

(* Whoever overlaps whom and whatever fails, no picture for phones is      *)
(* saved or served without one for desktops, and no closing without its    *)
(* reason, or OTHER without its message.                                   *)
ServedIsWhole ==
    \A s \in Setting : \A v \in {row[s], cache[s]} \ {None} :
        /\ s = "login" /\ v.mobile # "none" => v.desktop # "none"
        /\ s = "maintenance" /\ v.enabled => v.reason # "none" /\ (v.reason = "OTHER" => v.message)
        /\ s = "bank" /\ v.enabled => v.account # "none"

(* "when enabled, visitors see the under-maintenance page", the row's own  *)
(* description: applyAutoReopen, called by a visitor's request, never ends *)
(* a closing that lasts.                                                   *)
ReopensInTime == \A r \in Req : job[r].op = "reopen" /\ row' # row => Overdue
=============================================================================
