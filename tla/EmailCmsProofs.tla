---------------------------- MODULE EmailCmsProofs ----------------------------
(***************************************************************************)
(* What the e-mail templates promise, for any containers, kinds of mail    *)
(* and placeholders: however edits, mails and restarts overlap no mail     *)
(* shows a placeholder; one request at a time, the cache is what the       *)
(* database holds and a disabled template is not used; and without a       *)
(* restart in between, one container is the default.                       *)
(*                                                                         *)
(* The second part is about Notifications, of any orders, stores and       *)
(* admins: what an event promised to tell and to mail.                     *)
(***************************************************************************)
EXTENDS EmailCms, SequenceTheorems, FiniteSetTheorems, TLAPS

(* Every text that was saved, cached or is about to be has only known      *)
(* placeholders.                                                           *)
TextsAreKnown ==
    /\ \A c \in Container : validateContainerHtmlShell(containers[c].shell)
    /\ \A k \in Key : validateEmailContentTemplate(content[k].body)
    /\ \A k \in Key : /\ validateContainerHtmlShell(cache[k].shell)
                      /\ validateEmailContentTemplate(cache[k].content.body)

(* What a handler is about to save was validated, and the container that   *)
(* a content row names exists.                                             *)
JobKnows(j) ==
    /\ validateContainerHtmlShell(j.row.shell)
    /\ validateEmailContentTemplate(j.content.body)
    /\ j.at \in {"clear", "save"} => j.row.exists
    /\ j.at = "saveContent" => containers[j.content.container].exists

JobsKnow == \A r \in Req : JobKnows(job[r])

(* Only a container that exists is the default, so a new one is not.       *)
DefaultsExist == \A c \in Container : containers[c].isDefault => containers[c].exists

EmailInv == TypeOK /\ TextsAreKnown /\ JobsKnow /\ DefaultsExist /\ NoLiteralPlaceholder

(* One handler at a time.                                                  *)
OneRequest == \A r, q \in Req : r = q

(* The handler still has to drop the entry of k.                           *)
WillDrop(j, k) == j.at = "invalidateAll" \/ (j.at = "invalidateKey" /\ j.k = k)

(* An entry that no handler will drop is what the database holds.          *)
EntriesFollow ==
    \A k \in Key : cache[k].cached /\ (\A r \in Req : ~WillDrop(job[r], k)) =>
        /\ cache[k].content = content[k]
        /\ content[k].exists => cache[k].shell = containers[content[k].container].shell

(* A row that was read for a mail is still the row of the database.        *)
LoadedIsCurrent ==
    \A r \in Req : job[r].at = "readContainer" =>
        /\ job[r].content = content[job[r].k]
        /\ job[r].known \/ ~job[r].content.enabled

FreshInv == EntriesFollow /\ LoadedIsCurrent /\ DisabledForcesFallback

(* d alone is the default.                                                 *)
Only(d) == \A c \in Container : containers[c].isDefault <=> c = d

(* The mark is on one container, or the handler that took it away is about *)
(* to set it; a save does not move the mark.                               *)
DefaultInv ==
    /\ (\A r \in Req : job[r].at # "save") => \E d \in Container : Only(d)
    /\ \A r \in Req : job[r].at = "clear" => job[r].row.isDefault
    /\ \A r \in Req : job[r].at = "save" =>
          \/ job[r].row.isDefault /\ \A c \in Container : ~containers[c].isDefault
          \/ \E d \in Container : Only(d) /\ (job[r].row.isDefault <=> job[r].c = d)

-----------------------------------------------------------------------------
(* The values the columns start with.                                      *)
LEMMA SeedsAreRows ==
  ASSUME EmailAssumption
  PROVE  /\ First \in Container /\ AnyKey \in Key
         /\ \A k \in Key : SeedContent(k) \in EmailContent
         /\ \A k \in Key : validateEmailContentTemplate(SeedContent(k).body)
         /\ NoEntry \in Entry /\ ~NoEntry.cached
         /\ validateContainerHtmlShell(NoEntry.shell)
         /\ validateEmailContentTemplate(NoEntry.content.body)
         /\ NoContainer \in EmailContainer
         /\ Idle \in Job /\ JobKnows(Idle) /\ Idle.at = "idle"
<1>1. First \in Container /\ AnyKey \in Key BY DEF First, AnyKey, EmailAssumption
<1>2. \A k \in Key : /\ SeedContent(k) \in EmailContent
                     /\ validateEmailContentTemplate(SeedContent(k).body)
  BY <1>1 DEF SeedContent, EmailContent, Text, validateEmailContentTemplate,
     getPlaceholdersForKey
<1>3. NoEntry = [cached |-> FALSE, content |-> SeedContent(AnyKey), shell |-> {}]
  BY DEF NoEntry, AnyKey
<1>4. /\ NoEntry \in Entry /\ ~NoEntry.cached
      /\ validateContainerHtmlShell(NoEntry.shell)
      /\ validateEmailContentTemplate(NoEntry.content.body)
  BY <1>1, <1>2, <1>3 DEF Entry, Shell, validateContainerHtmlShell
<1>5. NoContainer \in EmailContainer BY DEF NoContainer, EmailContainer, Shell
<1>6. Idle \in Job /\ JobKnows(Idle) /\ Idle.at = "idle"
  BY <1>1, <1>2, <1>5 DEF Idle, Job, JobKnows, NoContainer, validateContainerHtmlShell
<1> QED BY <1>1, <1>2, <1>4, <1>5, <1>6

(* A container, content rows of known placeholders and nothing in flight.  *)
LEMMA EmailInit == ASSUME EmailAssumption PROVE Init => EmailInv
<1> SUFFICES ASSUME Init PROVE EmailInv OBVIOUS
<1>1. containers \in [Container -> EmailContainer]
  BY SeedsAreRows DEF Init, EmailContainer, Shell
<1>2. /\ content \in [Key -> EmailContent] /\ cache \in [Key -> Entry]
      /\ job \in [Req -> Job]
  BY SeedsAreRows DEF Init
<1>3. sent \in Mail /\ NoLiteralPlaceholder
  BY DEF Init, NoMail, Mail, Text, NoLiteralPlaceholder
<1>4. \A k \in Key : containers[content[k].container].exists
  BY SeedsAreRows DEF Init, SeedContent
<1>5. TypeOK BY <1>1, <1>2, <1>3, <1>4 DEF TypeOK
<1>6. TextsAreKnown
  BY SeedsAreRows DEF Init, TextsAreKnown, NoContainer, validateContainerHtmlShell
<1>7. JobsKnow BY SeedsAreRows DEF Init, JobsKnow
<1>8. DefaultsExist BY DEF Init, DefaultsExist, NoContainer
<1> QED BY <1>3, <1>5, <1>6, <1>7, <1>8 DEF EmailInv

(* A handler that goes on to a job it knows enough for, while the tables   *)
(* and the cache keep to known texts and no container goes away.           *)
LEMMA JobGoesOn ==
  ASSUME EmailInv, NEW r \in Req, NEW j \in Job, job' = [job EXCEPT ![r] = j], JobKnows(j)',
         containers' \in [Container -> EmailContainer],
         content' \in [Key -> EmailContent], cache' \in [Key -> Entry], sent' \in Mail,
         \A c \in Container : containers[c].exists => containers[c].exists',
         DefaultsExist',
         \A k \in Key : content[k].exists' => containers[content[k].container].exists',
         TextsAreKnown', NoLiteralPlaceholder'
  PROVE  EmailInv'
<1>1. job \in [Req -> Job] BY DEF EmailInv, TypeOK
<1>2. job' \in [Req -> Job] BY <1>1
<1>3. TypeOK' BY <1>2 DEF TypeOK
<1>4. \A q \in Req : JobKnows(job[q])'
  <2> SUFFICES ASSUME NEW q \in Req PROVE JobKnows(job[q])' OBVIOUS
  <2>1. CASE q = r BY <2>1, <1>1 DEF JobKnows
  <2>2. CASE q # r
    <3>1. job'[q] = job[q] /\ JobKnows(job[q]) BY <2>2, <1>1 DEF EmailInv, JobsKnow
    <3>2. job[q].content.container \in Container
      BY <1>1 DEF Job, EmailContent
    <3> QED BY <3>1, <3>2 DEF JobKnows, validateContainerHtmlShell,
            validateEmailContentTemplate
  <2> QED BY <2>1, <2>2
<1> QED BY <1>3, <1>4 DEF EmailInv, JobsKnow

(* What is rendered of known texts has no placeholder left.                *)
LEMMA RendersWhole ==
  ASSUME NEW e \in Entry, NEW given \in Given, NEW known \in BOOLEAN,
         validateContainerHtmlShell(e.shell), validateEmailContentTemplate(e.content.body),
         Deliver(renderForSend(e, given), known)
  PROVE  sent' \in Mail /\ NoLiteralPlaceholder'
<1>1. renderForSend(e, given).literal = {} /\ renderForSend(e, given).fallback \in BOOLEAN
  <2>1. CASE e.content.exists /\ e.content.enabled
    BY <2>1 DEF renderForSend, merge, validateContainerHtmlShell, validateEmailContentTemplate
  <2>2. CASE ~(e.content.exists /\ e.content.enabled)
    BY <2>2 DEF renderForSend, renderFallback
  <2> QED BY <2>1, <2>2
<1>2. {} \in Text \cup Shell BY DEF Text
<1> QED BY <1>1, <1>2 DEF Deliver, Mail, NoLiteralPlaceholder

(* A handler starts with a job of its own.                                 *)
LEMMA StartsWith ==
  ASSUME NEW r \in Req, NEW op \in AllHandlers,
         NEW at \in {"clear", "save", "saveContent", "readContainer"}, NEW what \in Job,
         Start(r, op, at, what)
  PROVE  /\ op \in Handlers /\ job[r].at = "idle"
         /\ \E j \in Job :
               /\ job' = [job EXCEPT ![r] = j]
               /\ j.at = at /\ j.op = op /\ j.c = what.c /\ j.row = what.row
               /\ j.k = what.k /\ j.content = what.content /\ j.known = what.known
<1>1. PICK j : j = [what EXCEPT !.at = at, !.op = op] OBVIOUS
<1>2. job' = [job EXCEPT ![r] = j] /\ op \in Handlers /\ job[r].at = "idle" BY <1>1 DEF Start
<1>3. /\ j \in Job
      /\ j.at = at /\ j.op = op /\ j.c = what.c /\ j.row = what.row
      /\ j.k = what.k /\ j.content = what.content /\ j.known = what.known
  BY <1>1 DEF Job
<1> QED BY <1>2, <1>3

(* createContainer, updateContainer and setDefaultContainer start with a   *)
(* row that exists and whose page was validated, now or when it was saved. *)
EditsContainer(r, j) ==
    /\ job[r].at = "idle" /\ job' = [job EXCEPT ![r] = j]
    /\ j.at \in {"clear", "save"} /\ j.row.exists
    /\ validateContainerHtmlShell(j.row.shell) /\ validateEmailContentTemplate(j.content.body)
    /\ j.at = "clear" => j.row.isDefault
    /\ j.at = "save" => (j.row.isDefault <=> containers[j.c].isDefault)
    /\ UNCHANGED <<containers, content, cache, sent>>

(* updateContentTemplate starts with a row that was validated, in a        *)
(* container that exists.                                                  *)
EditsContent(r, j) ==
    /\ job[r].at = "idle" /\ job' = [job EXCEPT ![r] = j]
    /\ j.at = "saveContent" /\ containers[j.content.container].exists
    /\ validateContainerHtmlShell(j.row.shell) /\ validateEmailContentTemplate(j.content.body)
    /\ UNCHANGED <<containers, content, cache, sent>>

(* A request that starts to write a container has validated its text.      *)
LEMMA ContainerJobs ==
  ASSUME EmailAssumption, EmailInv, NEW r \in Req, NEW op \in CmsResolver,
         NEW at \in {"clear", "save"}, NEW c \in Container, NEW row \in EmailContainer,
         row.exists, validateContainerHtmlShell(row.shell),
         at = "clear" => row.isDefault,
         at = "save" => (row.isDefault <=> containers[c].isDefault),
         Start(r, op, at, [Idle EXCEPT !.c = c, !.row = row]),
         UNCHANGED <<containers, content, cache, sent>>
  PROVE  \E j \in Job : EditsContainer(r, j)
<1>1. PICK i : i = [Idle EXCEPT !.c = c, !.row = row] OBVIOUS
<1>2. Idle \in Job /\ JobKnows(Idle) BY SeedsAreRows
<1>3. i \in Job /\ i.c = c /\ i.row = row /\ i.content = Idle.content BY <1>1, <1>2 DEF Job
<1>4. op \in AllHandlers BY DEF AllHandlers
<1>5. Start(r, op, at, i) BY <1>1
<1>6. job[r].at = "idle" BY <1>3, <1>4, <1>5, StartsWith
<1>7. PICK j \in Job : /\ job' = [job EXCEPT ![r] = j]
                       /\ j.at = at /\ j.c = i.c /\ j.row = i.row /\ j.content = i.content
  BY <1>3, <1>4, <1>5, StartsWith
<1>8. EditsContainer(r, j) BY <1>2, <1>3, <1>6, <1>7 DEF EditsContainer, JobKnows
<1> QED BY <1>8

(* Every request of an administrator edits a container or a content.       *)
LEMMA AdministerEdits ==
  ASSUME EmailAssumption, EmailInv, NEW r \in Req, Administer(r)
  PROVE  \E j \in Job : EditsContent(r, j) \/ EditsContainer(r, j)
<1>0. containers \in [Container -> EmailContainer] BY DEF EmailInv, TypeOK
<1>1. ASSUME NEW c \in Container, NEW shell \in Shell, NEW isDefault \in BOOLEAN,
             createContainer(r, c, shell, isDefault)
      PROVE  \E j \in Job : EditsContainer(r, j)
  <2>1. PICK row : row = [exists |-> TRUE, isDefault |-> isDefault, shell |-> shell] OBVIOUS
  <2>2. PICK at : at = IF isDefault THEN "clear" ELSE "save" OBVIOUS
  <2>3. /\ Start(r, "createContainer", at, [Idle EXCEPT !.c = c, !.row = row])
        /\ validateContainerHtmlShell(row.shell) /\ ~containers[c].exists
        /\ UNCHANGED <<containers, content, cache, sent>>
    BY <1>1, <2>1, <2>2 DEF createContainer
  <2>4. row \in EmailContainer /\ row.exists /\ row.isDefault = isDefault
    BY <2>1 DEF EmailContainer
  <2>5. ~containers[c].isDefault BY <2>3 DEF EmailInv, DefaultsExist
  <2>6. at = "clear" => row.isDefault BY <2>2, <2>4, <2>5
  <2>7. at = "save" => (row.isDefault <=> containers[c].isDefault) BY <2>2, <2>4, <2>5
  <2>8. "createContainer" \in CmsResolver /\ at \in {"clear", "save"} BY <2>2 DEF CmsResolver
  <2> QED BY <2>3, <2>4, <2>6, <2>7, <2>8, ContainerJobs
<1>2. ASSUME NEW c \in Container, NEW shell \in Shell, NEW isDefault \in BOOLEAN,
             updateContainer(r, c, shell, isDefault)
      PROVE  \E j \in Job : EditsContainer(r, j)
  <2>1. PICK row : row = [exists |-> TRUE, isDefault |-> isDefault, shell |-> shell] OBVIOUS
  <2>2. PICK at : at = IF isDefault /\ ~containers[c].isDefault THEN "clear" ELSE "save" OBVIOUS
  <2>3. /\ Start(r, "updateContainer", at, [Idle EXCEPT !.c = c, !.row = row])
        /\ validateContainerHtmlShell(row.shell)
        /\ containers[c].isDefault => isDefault
        /\ UNCHANGED <<containers, content, cache, sent>>
    BY <1>2, <2>1, <2>2 DEF updateContainer
  <2>4. row \in EmailContainer /\ row.exists /\ row.isDefault = isDefault
    BY <2>1 DEF EmailContainer
  <2>5. containers[c].isDefault \in BOOLEAN BY <1>0 DEF EmailContainer
  <2>6. at = "clear" => row.isDefault BY <2>2, <2>3, <2>4, <2>5
  <2>7. at = "save" => (row.isDefault <=> containers[c].isDefault) BY <2>2, <2>3, <2>4, <2>5
  <2>8. "updateContainer" \in CmsResolver /\ at \in {"clear", "save"} BY <2>2 DEF CmsResolver
  <2> QED BY <2>3, <2>4, <2>6, <2>7, <2>8, ContainerJobs
<1>3. ASSUME NEW c \in Container, setDefaultContainer(r, c)
      PROVE  \E j \in Job : EditsContainer(r, j)
  <2>1. PICK row : row = [containers[c] EXCEPT !.isDefault = TRUE] OBVIOUS
  <2>2. /\ Start(r, "setDefault", "clear", [Idle EXCEPT !.c = c, !.row = row])
        /\ containers[c].exists /\ UNCHANGED <<containers, content, cache, sent>>
    BY <1>3, <2>1 DEF setDefaultContainer
  <2>3. row \in EmailContainer /\ row.exists /\ row.isDefault /\ row.shell = containers[c].shell
    BY <1>0, <2>1, <2>2 DEF EmailContainer
  <2>4. validateContainerHtmlShell(row.shell) BY <2>3 DEF EmailInv, TextsAreKnown
  <2>5. "setDefault" \in CmsResolver BY DEF CmsResolver
  <2> QED BY <2>2, <2>3, <2>4, <2>5, ContainerJobs
<1>4. ASSUME NEW k \in Key, NEW c \in Container, NEW body \in Text, NEW enabled \in BOOLEAN,
             updateContentTemplate(r, k, c, body, enabled)
      PROVE  \E j \in Job : EditsContent(r, j)
  <2>1. PICK row : row = [exists |-> TRUE, enabled |-> enabled, container |-> c, body |-> body]
    OBVIOUS
  <2>2. row \in EmailContent /\ row.container = c /\ row.body = body
    BY <2>1 DEF EmailContent
  <2>3. PICK i : i = [Idle EXCEPT !.k = k, !.content = row] OBVIOUS
  <2>4. Idle \in Job /\ JobKnows(Idle) BY SeedsAreRows
  <2>5. i \in Job /\ i.content = row /\ i.row = Idle.row BY <2>2, <2>3, <2>4 DEF Job
  <2>6. /\ Start(r, "updateContent", "saveContent", i)
        /\ validateEmailContentTemplate(body) /\ containers[c].exists
        /\ UNCHANGED <<containers, content, cache, sent>>
    BY <1>4, <2>1, <2>3 DEF updateContentTemplate
  <2>7. "updateContent" \in AllHandlers BY DEF AllHandlers, CmsResolver
  <2>8. job[r].at = "idle" BY <2>5, <2>6, <2>7, StartsWith
  <2>9. PICK j \in Job : /\ job' = [job EXCEPT ![r] = j]
                         /\ j.at = "saveContent" /\ j.row = i.row /\ j.content = i.content
    BY <2>5, <2>6, <2>7, StartsWith
  <2>10. EditsContent(r, j) BY <2>2, <2>4, <2>5, <2>6, <2>8, <2>9 DEF EditsContent, JobKnows
  <2> QED BY <2>10
<1> QED BY <1>1, <1>2, <1>3, <1>4 DEF Administer

(* A handler at at goes on with the job it has.                            *)
LEMMA GoesTo ==
  ASSUME EmailInv, NEW r \in Req,
         NEW at \in {"save", "invalidateAll", "invalidateKey"}, Goto(r, at)
  PROVE  \E j \in Job : /\ job' = [job EXCEPT ![r] = j]
                        /\ j.at = at /\ j.c = job[r].c /\ j.row = job[r].row
                        /\ j.k = job[r].k /\ j.content = job[r].content
<1>1. PICK j : j = [job[r] EXCEPT !.at = at] OBVIOUS
<1>2. job[r] \in Job BY DEF EmailInv, TypeOK
<1>3. job' = [job EXCEPT ![r] = j] BY <1>1 DEF Goto
<1>4. /\ j \in Job /\ j.at = at /\ j.c = job[r].c /\ j.row = job[r].row
      /\ j.k = job[r].k /\ j.content = job[r].content
  BY <1>1, <1>2 DEF Job
<1> QED BY <1>3, <1>4

(* What a mail reads: the entry of the cache, a row, or the row and its    *)
(* container.                                                              *)
ReadsRow(r, j) ==
    /\ job[r].at = "idle" /\ job' = [job EXCEPT ![r] = j]
    /\ j.at = "readContainer" /\ j.content = content[j.k] /\ j.known = Known(j.k)
    /\ validateContainerHtmlShell(j.row.shell)
    /\ UNCHANGED <<containers, content, cache, sent>>

(* A mail uses what is cached, or reads the content first.                 *)
LEMMA LoadReads ==
  ASSUME EmailAssumption, EmailInv, NEW r \in Req, NEW k \in Key, NEW given \in Given,
         loadEntry(r, k, given)
  PROVE  \/ /\ cache[k].cached /\ job[r].at = "idle"
            /\ Deliver(renderForSend(cache[k], given), Known(k))
            /\ UNCHANGED <<containers, content, cache, job>>
         \/ \E j \in Job : ReadsRow(r, j)
<1>1. CASE cache[k].cached BY <1>1 DEF loadEntry, At
<1>2. CASE ~cache[k].cached
  <2>1. PICK row : row = content[k] OBVIOUS
  <2>2. PICK known : known = Known(k) OBVIOUS
  <2>3. row \in EmailContent /\ known \in BOOLEAN
    BY <2>1, <2>2 DEF EmailInv, TypeOK, Known, EmailContent
  <2>4. PICK i : i = [Idle EXCEPT !.k = k, !.content = row, !.known = known] OBVIOUS
  <2>5. Idle \in Job /\ JobKnows(Idle) BY SeedsAreRows
  <2>6. i \in Job /\ i.k = k /\ i.content = row /\ i.row = Idle.row /\ i.known = known
    BY <2>3, <2>4, <2>5 DEF Job
  <2>7. Start(r, "send", "readContainer", i) /\ UNCHANGED <<containers, content, cache, sent>>
    BY <1>2, <2>1, <2>2, <2>4 DEF loadEntry
  <2>8. "send" \in AllHandlers BY DEF AllHandlers
  <2>9. job[r].at = "idle" BY <2>6, <2>7, <2>8, StartsWith
  <2>10. PICK j \in Job : /\ job' = [job EXCEPT ![r] = j] /\ j.at = "readContainer" /\ j.k = i.k
                          /\ j.content = i.content /\ j.row = i.row /\ j.known = i.known
    BY <2>6, <2>7, <2>8, StartsWith
  <2>11. ReadsRow(r, j) BY <2>1, <2>2, <2>5, <2>6, <2>7, <2>9, <2>10 DEF ReadsRow, JobKnows
  <2> QED BY <2>11
<1> QED BY <1>1, <1>2

(* What FillCache puts into the cache.                                     *)
Loaded(r) ==
    [cached |-> TRUE, content |-> job[r].content,
     shell |-> IF job[r].content.exists THEN containers[job[r].content.container].shell ELSE {}]

(* What was read is an entry of the cache, and its texts were validated.   *)
LEMMA LoadedIsEntry ==
  ASSUME EmailInv, NEW r \in Req
  PROVE  /\ Loaded(r) \in Entry /\ Loaded(r).cached /\ Loaded(r).content = job[r].content
         /\ job[r].content.exists => Loaded(r).shell = containers[job[r].content.container].shell
         /\ validateContainerHtmlShell(Loaded(r).shell)
         /\ validateEmailContentTemplate(Loaded(r).content.body)
<1>1. job[r].content \in EmailContent /\ job[r].content.container \in Container
  BY DEF EmailInv, TypeOK, Job, EmailContent
<1>2. validateEmailContentTemplate(job[r].content.body) BY DEF EmailInv, JobsKnow, JobKnows
<1>3. /\ containers[job[r].content.container].shell \in Shell
      /\ validateContainerHtmlShell(containers[job[r].content.container].shell)
  BY <1>1 DEF EmailInv, TypeOK, TextsAreKnown, EmailContainer
<1>4. {} \in Shell /\ validateContainerHtmlShell({}) BY DEF Shell, validateContainerHtmlShell
<1>5. PICK s : s = IF job[r].content.exists THEN containers[job[r].content.container].shell ELSE {}
  OBVIOUS
<1>6. s \in Shell /\ validateContainerHtmlShell(s) BY <1>3, <1>4, <1>5
<1>7. Loaded(r) = [cached |-> TRUE, content |-> job[r].content, shell |-> s] BY <1>5 DEF Loaded
<1> QED BY <1>1, <1>2, <1>5, <1>6, <1>7 DEF Entry

(* Filling the cache delivers the mail with what was read.                 *)
LEMMA FillCaches ==
  ASSUME EmailInv, NEW r \in Req, NEW given \in Given, FillCache(r, given)
  PROVE  /\ job[r].at = "readContainer" /\ cache' = [cache EXCEPT ![job[r].k] = Loaded(r)]
         /\ Deliver(renderForSend(Loaded(r), given), job[r].known)
         /\ job' = [job EXCEPT ![r] = Idle] /\ UNCHANGED <<containers, content>>
  BY DEF FillCache, Loaded, At, Return

-----------------------------------------------------------------------------
(* Every step keeps texts known, however handlers overlap and whenever the *)
(* process dies.                                                           *)

(* An administrator's request that starts keeps the invariant.             *)
LEMMA AdministerKeeps ==
  ASSUME EmailAssumption, EmailInv, NEW r \in Req, Administer(r)
  PROVE  EmailInv'
<1>1. PICK j \in Job : EditsContent(r, j) \/ EditsContainer(r, j) BY AdministerEdits
<1>2. job' = [job EXCEPT ![r] = j] /\ UNCHANGED <<containers, content, cache, sent>>
  BY <1>1 DEF EditsContent, EditsContainer
<1>3. JobKnows(j) BY <1>1 DEF EditsContent, EditsContainer, JobKnows
<1>4. JobKnows(j)' BY <1>2, <1>3 DEF JobKnows, validateContainerHtmlShell, validateEmailContentTemplate
<1>5. TextsAreKnown' /\ DefaultsExist' /\ NoLiteralPlaceholder'
  BY <1>2 DEF EmailInv, TextsAreKnown, DefaultsExist, NoLiteralPlaceholder,
     validateContainerHtmlShell, validateEmailContentTemplate
<1> QED BY <1>2, <1>4, <1>5, JobGoesOn DEF EmailInv, TypeOK

(* So do the writes of containers.                                         *)
LEMMA WriteContainerKeeps ==
  ASSUME EmailAssumption, EmailInv, NEW r \in Req,
         ClearDefaults(r) \/ SaveContainer(r) \/ invalidateAll(r)
  PROVE  EmailInv'
<1>1. /\ containers \in [Container -> EmailContainer] /\ content \in [Key -> EmailContent]
      /\ cache \in [Key -> Entry] /\ sent \in Mail /\ job[r] \in Job
  BY DEF EmailInv, TypeOK
<1>2. \A k \in Key : content[k].exists => containers[content[k].container].exists
  BY DEF EmailInv, TypeOK
<1>3. \A k \in Key : content[k].container \in Container BY <1>1 DEF EmailContent
<1>4. CASE ClearDefaults(r)
  <2>1. PICK j \in Job : /\ job' = [job EXCEPT ![r] = j]
                         /\ j.at = "save" /\ j.row = job[r].row /\ j.content = job[r].content
    BY <1>4, GoesTo DEF ClearDefaults
  <2>2. /\ job[r].at = "clear" /\ UNCHANGED <<content, cache, sent>>
        /\ containers' = [c \in Container |-> [containers[c] EXCEPT !.isDefault = FALSE]]
    BY <1>4 DEF ClearDefaults, At
  <2>3. \A c \in Container : /\ containers'[c] \in EmailContainer
                             /\ containers'[c].exists = containers[c].exists
                             /\ containers'[c].shell = containers[c].shell
                             /\ ~containers'[c].isDefault
    BY <1>1, <2>2 DEF EmailContainer
  <2>4. containers' \in [Container -> EmailContainer] BY <2>2, <2>3
  <2>5. JobKnows(j)'
    BY <2>1, <2>2 DEF EmailInv, JobsKnow, JobKnows, validateContainerHtmlShell,
       validateEmailContentTemplate
  <2>6. TextsAreKnown' /\ DefaultsExist' /\ NoLiteralPlaceholder'
    BY <2>2, <2>3 DEF EmailInv, TextsAreKnown, DefaultsExist, NoLiteralPlaceholder,
       validateContainerHtmlShell, validateEmailContentTemplate
  <2> QED BY <1>1, <1>2, <1>3, <2>1, <2>2, <2>3, <2>4, <2>5, <2>6, JobGoesOn
<1>5. CASE SaveContainer(r)
  <2>1. PICK j \in Job : /\ job' = [job EXCEPT ![r] = j]
                         /\ j.at = "invalidateAll" /\ j.row = job[r].row /\ j.content = job[r].content
    BY <1>5, GoesTo DEF SaveContainer
  <2>2. /\ job[r].at = "save" /\ UNCHANGED <<content, cache, sent>>
        /\ containers' = [containers EXCEPT ![job[r].c] = job[r].row]
    BY <1>5 DEF SaveContainer, At
  <2>3. job[r].c \in Container /\ job[r].row \in EmailContainer BY <1>1 DEF Job
  <2>4. job[r].row.exists /\ validateContainerHtmlShell(job[r].row.shell)
    BY <2>2 DEF EmailInv, JobsKnow, JobKnows
  <2>5. containers' \in [Container -> EmailContainer] BY <1>1, <2>2, <2>3
  <2>6. \A c \in Container : containers'[c] = IF c = job[r].c THEN job[r].row ELSE containers[c]
    BY <1>1, <2>2, <2>3
  <2>7. \A c \in Container : containers[c].exists => containers'[c].exists BY <2>4, <2>6
  <2>8. JobKnows(j)'
    BY <2>1, <2>2 DEF EmailInv, JobsKnow, JobKnows, validateContainerHtmlShell,
       validateEmailContentTemplate
  <2>9. TextsAreKnown' /\ DefaultsExist' /\ NoLiteralPlaceholder'
    BY <2>2, <2>4, <2>6 DEF EmailInv, TextsAreKnown, DefaultsExist, NoLiteralPlaceholder,
       validateContainerHtmlShell, validateEmailContentTemplate
  <2> QED BY <1>1, <1>2, <1>3, <2>1, <2>2, <2>5, <2>7, <2>8, <2>9, JobGoesOn
<1>6. CASE invalidateAll(r)
  <2>1. /\ job' = [job EXCEPT ![r] = Idle] /\ UNCHANGED <<containers, content, sent>>
        /\ cache' = [k \in Key |-> NoEntry]
    BY <1>6 DEF invalidateAll, Return
  <2>2. cache' \in [Key -> Entry] BY <2>1, SeedsAreRows
  <2>3. JobKnows(Idle)' BY <2>1, SeedsAreRows DEF JobKnows, validateContainerHtmlShell,
          validateEmailContentTemplate
  <2>4. TextsAreKnown' /\ DefaultsExist' /\ NoLiteralPlaceholder'
    BY <2>1, SeedsAreRows DEF EmailInv, TextsAreKnown, DefaultsExist, NoLiteralPlaceholder,
       validateContainerHtmlShell, validateEmailContentTemplate
  <2> QED BY <1>1, <1>2, <2>1, <2>2, <2>3, <2>4, SeedsAreRows, JobGoesOn
<1> QED BY <1>4, <1>5, <1>6

(* So do the writes of contents.                                           *)
LEMMA WriteContentKeeps ==
  ASSUME EmailAssumption, EmailInv, NEW r \in Req, SaveContent(r) \/ invalidateKey(r)
  PROVE  EmailInv'
<1>1. /\ containers \in [Container -> EmailContainer] /\ content \in [Key -> EmailContent]
      /\ cache \in [Key -> Entry] /\ sent \in Mail /\ job[r] \in Job
  BY DEF EmailInv, TypeOK
<1>2. \A k \in Key : content[k].exists => containers[content[k].container].exists
  BY DEF EmailInv, TypeOK
<1>3. job[r].k \in Key /\ job[r].content \in EmailContent BY <1>1 DEF Job
<1>4. CASE SaveContent(r)
  <2>1. PICK j \in Job : /\ job' = [job EXCEPT ![r] = j]
                         /\ j.at = "invalidateKey" /\ j.row = job[r].row /\ j.content = job[r].content
    BY <1>4, GoesTo DEF SaveContent
  <2>2. /\ job[r].at = "saveContent" /\ UNCHANGED <<containers, cache, sent>>
        /\ content' = [content EXCEPT ![job[r].k] = job[r].content]
    BY <1>4 DEF SaveContent, At
  <2>3. /\ containers[job[r].content.container].exists
        /\ validateEmailContentTemplate(job[r].content.body)
    BY <2>2 DEF EmailInv, JobsKnow, JobKnows
  <2>4. content' \in [Key -> EmailContent] BY <1>1, <1>3, <2>2
  <2>5. \A k \in Key : content'[k] = IF k = job[r].k THEN job[r].content ELSE content[k]
    BY <1>1, <1>3, <2>2
  <2>6. \A k \in Key : content'[k].exists => containers'[content'[k].container].exists
    BY <1>2, <2>2, <2>3, <2>5
  <2>7. JobKnows(j)'
    BY <2>1, <2>2 DEF EmailInv, JobsKnow, JobKnows, validateContainerHtmlShell,
       validateEmailContentTemplate
  <2>8. TextsAreKnown' /\ DefaultsExist' /\ NoLiteralPlaceholder'
    BY <2>2, <2>3, <2>5 DEF EmailInv, TextsAreKnown, DefaultsExist, NoLiteralPlaceholder,
       validateContainerHtmlShell, validateEmailContentTemplate
  <2> QED BY <1>1, <2>1, <2>2, <2>4, <2>6, <2>7, <2>8, JobGoesOn
<1>5. CASE invalidateKey(r)
  <2>1. /\ job' = [job EXCEPT ![r] = Idle] /\ UNCHANGED <<containers, content, sent>>
        /\ cache' = [cache EXCEPT ![job[r].k] = NoEntry]
    BY <1>5 DEF invalidateKey, Return
  <2>2. cache' \in [Key -> Entry] BY <1>1, <2>1, SeedsAreRows
  <2>3. \A k \in Key : cache'[k] = IF k = job[r].k THEN NoEntry ELSE cache[k]
    BY <1>1, <1>3, <2>1
  <2>4. JobKnows(Idle)' BY <2>1, SeedsAreRows DEF JobKnows, validateContainerHtmlShell,
          validateEmailContentTemplate
  <2>5. TextsAreKnown' /\ DefaultsExist' /\ NoLiteralPlaceholder'
    BY <2>1, <2>3, SeedsAreRows DEF EmailInv, TextsAreKnown, DefaultsExist, NoLiteralPlaceholder,
       validateContainerHtmlShell, validateEmailContentTemplate
  <2> QED BY <1>1, <1>2, <2>1, <2>2, <2>4, <2>5, SeedsAreRows, JobGoesOn
<1> QED BY <1>4, <1>5

(* So does a mail, from the cache or from the rows.                        *)
LEMMA MailKeeps ==
  ASSUME EmailAssumption, EmailInv, NEW r \in Req, NEW given \in Given,
         FillCache(r, given) \/ \E k \in Key : loadEntry(r, k, given)
  PROVE  EmailInv'
<1>1. /\ containers \in [Container -> EmailContainer] /\ content \in [Key -> EmailContent]
      /\ cache \in [Key -> Entry] /\ sent \in Mail /\ job \in [Req -> Job]
  BY DEF EmailInv, TypeOK
<1>2. \A k \in Key : content[k].exists => containers[content[k].container].exists
  BY DEF EmailInv, TypeOK
<1>3. CASE FillCache(r, given)
  <2>1. /\ cache' = [cache EXCEPT ![job[r].k] = Loaded(r)]
        /\ Deliver(renderForSend(Loaded(r), given), job[r].known)
        /\ job' = [job EXCEPT ![r] = Idle] /\ UNCHANGED <<containers, content>>
    BY <1>3, FillCaches
  <2>2. PICK e : e = Loaded(r) OBVIOUS
  <2>3. e \in Entry /\ validateContainerHtmlShell(e.shell) /\ validateEmailContentTemplate(e.content.body)
    BY <2>2, LoadedIsEntry
  <2>4. job[r].k \in Key /\ job[r].known \in BOOLEAN BY <1>1 DEF Job
  <2>5. sent' \in Mail /\ NoLiteralPlaceholder' BY <2>1, <2>2, <2>3, <2>4, RendersWhole
  <2>6. cache' = [cache EXCEPT ![job[r].k] = e] BY <2>1, <2>2
  <2>7. cache' \in [Key -> Entry] /\ \A k \in Key : cache'[k] = IF k = job[r].k THEN e ELSE cache[k]
    BY <1>1, <2>3, <2>4, <2>6
  <2>8. JobKnows(Idle)' BY <2>1, SeedsAreRows DEF JobKnows, validateContainerHtmlShell,
          validateEmailContentTemplate
  <2>9. TextsAreKnown' /\ DefaultsExist'
    BY <2>1, <2>3, <2>7 DEF EmailInv, TextsAreKnown, DefaultsExist, validateContainerHtmlShell,
       validateEmailContentTemplate
  <2> QED BY <1>1, <1>2, <2>1, <2>5, <2>7, <2>8, <2>9, SeedsAreRows, JobGoesOn
<1>4. ASSUME NEW k \in Key, loadEntry(r, k, given) PROVE EmailInv'
  <2>1. CASE /\ cache[k].cached /\ job[r].at = "idle"
             /\ Deliver(renderForSend(cache[k], given), Known(k))
             /\ UNCHANGED <<containers, content, cache, job>>
    <3>1. Known(k) \in BOOLEAN BY <1>1 DEF Known, EmailContent
    <3>2. /\ cache[k] \in Entry /\ validateContainerHtmlShell(cache[k].shell)
          /\ validateEmailContentTemplate(cache[k].content.body)
      BY <1>1 DEF EmailInv, TextsAreKnown
    <3>3. sent' \in Mail /\ NoLiteralPlaceholder' BY <2>1, <3>1, <3>2, RendersWhole
    <3>4. TypeOK' BY <1>1, <1>2, <2>1, <3>3 DEF TypeOK
    <3>5. TextsAreKnown' /\ DefaultsExist' /\ JobsKnow'
      BY <2>1 DEF EmailInv, TextsAreKnown, DefaultsExist, JobsKnow, JobKnows,
         validateContainerHtmlShell, validateEmailContentTemplate
    <3> QED BY <3>3, <3>4, <3>5 DEF EmailInv
  <2>2. CASE \E j \in Job : ReadsRow(r, j)
    <3>1. PICK j \in Job : ReadsRow(r, j) BY <2>2
    <3>2. /\ job' = [job EXCEPT ![r] = j] /\ UNCHANGED <<containers, content, cache, sent>>
          /\ j.at = "readContainer" /\ j.content = content[j.k] /\ j.k \in Key
      BY <3>1 DEF ReadsRow, Job
    <3>3. JobKnows(j) BY <3>1, <3>2 DEF ReadsRow, JobKnows, EmailInv, TextsAreKnown
    <3>4. JobKnows(j)'
      BY <3>2, <3>3 DEF JobKnows, validateContainerHtmlShell, validateEmailContentTemplate
    <3>5. TextsAreKnown' /\ DefaultsExist' /\ NoLiteralPlaceholder'
      BY <3>2 DEF EmailInv, TextsAreKnown, DefaultsExist, NoLiteralPlaceholder,
         validateContainerHtmlShell, validateEmailContentTemplate
    <3> QED BY <1>1, <1>2, <3>2, <3>4, <3>5, JobGoesOn
  <2> QED BY <1>4, <2>1, <2>2, LoadReads
<1> QED BY <1>3, <1>4

(* An entry that expires, and a process that restarts, take knowledge away *)
(* and add none.                                                           *)
LEMMA ForgettingKeeps ==
  ASSUME EmailAssumption, EmailInv, Crash \/ \E k \in Key : Expire(k)
  PROVE  EmailInv'
<1>1. /\ UNCHANGED <<containers, content, sent>>
      /\ \A k \in Key : cache'[k] \in {cache[k], NoEntry}
      /\ \A r \in Req : job'[r] \in {job[r], Idle}
  BY DEF Crash, Expire, EmailInv, TypeOK
<1>2. cache' \in [Key -> Entry] BY SeedsAreRows DEF Crash, Expire, EmailInv, TypeOK
<1>3. job' \in [Req -> Job] BY SeedsAreRows DEF Crash, Expire, EmailInv, TypeOK
<1>4. TypeOK' BY <1>1, <1>2, <1>3 DEF EmailInv, TypeOK
<1>5. TextsAreKnown' /\ DefaultsExist' /\ NoLiteralPlaceholder'
  BY <1>1, SeedsAreRows DEF EmailInv, TextsAreKnown, DefaultsExist, NoLiteralPlaceholder,
     validateContainerHtmlShell, validateEmailContentTemplate
<1>6. \A r \in Req : JobKnows(job'[r]) BY <1>1, SeedsAreRows DEF EmailInv, JobsKnow
<1>7. JobsKnow'
  BY <1>1, <1>6 DEF JobsKnow, JobKnows, validateContainerHtmlShell, validateEmailContentTemplate
<1> QED BY <1>4, <1>5, <1>7 DEF EmailInv

(* Every step keeps the invariant.                                         *)
LEMMA EmailNext == ASSUME EmailAssumption PROVE EmailInv /\ [Next]_vars => EmailInv'
<1> SUFFICES ASSUME EmailInv, [Next]_vars PROVE EmailInv' OBVIOUS
<1>1. CASE UNCHANGED vars
  BY <1>1 DEF vars, EmailInv, TypeOK, TextsAreKnown, JobsKnow, JobKnows, DefaultsExist,
     NoLiteralPlaceholder, validateContainerHtmlShell, validateEmailContentTemplate
<1>2. ASSUME NEW r \in Req, Administer(r) PROVE EmailInv' BY <1>2, AdministerKeeps
<1>3. ASSUME NEW r \in Req, Write(r) PROVE EmailInv'
  BY <1>3, WriteContainerKeeps, WriteContentKeeps DEF Write
<1>4. ASSUME NEW r \in Req, NEW given \in Given,
             FillCache(r, given) \/ \E k \in Key : loadEntry(r, k, given)
      PROVE  EmailInv'
  BY <1>4, MailKeeps
<1>5. CASE Crash \/ \E k \in Key : Expire(k) BY <1>5, ForgettingKeeps
<1> QED BY <1>1, <1>2, <1>3, <1>4, <1>5 DEF Next

(* renderForSend and the validation on save: whatever is edited, cached or *)
(* dies meanwhile, no mail shows a placeholder.                            *)
THEOREM MailIsWhole == ASSUME EmailAssumption PROVE Spec => [](TypeOK /\ NoLiteralPlaceholder)
<1>1. Init => EmailInv BY EmailInit
<1>2. EmailInv /\ [Next]_vars => EmailInv' BY EmailNext
<1>3. EmailInv => TypeOK /\ NoLiteralPlaceholder BY DEF EmailInv
<1> QED BY <1>1, <1>2, <1>3, PTL DEF Spec

-----------------------------------------------------------------------------
(* One request at a time: the cache follows the database.                  *)

(* An empty cache is fresh.                                                *)
LEMMA FreshInit == ASSUME EmailAssumption PROVE Init => FreshInv
  BY SeedsAreRows DEF Init, NoMail, FreshInv, EntriesFollow, LoadedIsCurrent, DisabledForcesFallback

(* The job of the one handler is the only one.                             *)
LEMMA OneJob ==
  ASSUME OneRequest, EmailInv, NEW r \in Req, NEW j, job' = [job EXCEPT ![r] = j]
  PROVE  job'[r] = j /\ \A q \in Req : q = r
  BY DEF OneRequest, EmailInv, TypeOK

(* A step that changes no row that an entry copies, loads none and drops   *)
(* what is to be dropped.                                                  *)
LEMMA StaysFresh ==
  ASSUME OneRequest, EmailInv, FreshInv, NEW r \in Req, NEW j, job' = [job EXCEPT ![r] = j],
         j.at # "readContainer", UNCHANGED sent,
         \A k \in Key : cache'[k].cached /\ ~WillDrop(j, k) =>
            /\ cache'[k] = cache[k] /\ content'[k] = content[k] /\ ~WillDrop(job[r], k)
            /\ content[k].exists =>
                  containers'[content[k].container].shell = containers[content[k].container].shell
  PROVE  FreshInv'
<1>1. job'[r] = j /\ \A q \in Req : q = r BY OneJob
<1>2. LoadedIsCurrent' BY <1>1 DEF LoadedIsCurrent
<1>3. DisabledForcesFallback' BY DEF FreshInv, DisabledForcesFallback
<1>4. ASSUME NEW k \in Key, cache'[k].cached, \A q \in Req : ~WillDrop(job'[q], k)
      PROVE  /\ cache'[k].content = content'[k]
             /\ content'[k].exists => cache'[k].shell = containers'[content'[k].container].shell
  <2>1. ~WillDrop(j, k) BY <1>1, <1>4
  <2>2. \A q \in Req : ~WillDrop(job[q], k) BY <1>1, <1>4, <2>1
  <2> QED BY <1>4, <2>1, <2>2 DEF FreshInv, EntriesFollow
<1>5. EntriesFollow' BY <1>4 DEF EntriesFollow, WillDrop
<1> QED BY <1>2, <1>3, <1>5 DEF FreshInv

(* An edit under way makes stale only the keys it will invalidate.         *)
LEMMA FreshEdits ==
  ASSUME EmailAssumption, OneRequest, EmailInv, FreshInv, NEW r \in Req, Administer(r) \/ Write(r)
  PROVE  FreshInv'
<1>1. CASE Administer(r)
  <2>1. PICK j \in Job : EditsContent(r, j) \/ EditsContainer(r, j) BY <1>1, AdministerEdits
  <2>2. /\ job[r].at = "idle" /\ job' = [job EXCEPT ![r] = j]
        /\ j.at \in {"clear", "save", "saveContent"} /\ UNCHANGED <<containers, content, cache, sent>>
    BY <2>1 DEF EditsContent, EditsContainer
  <2> QED BY <2>2, StaysFresh DEF WillDrop
<1>2. CASE ClearDefaults(r)
  <2>1. PICK j \in Job : job' = [job EXCEPT ![r] = j] /\ j.at = "save"
    BY <1>2, GoesTo DEF ClearDefaults
  <2>2. /\ job[r].at = "clear" /\ UNCHANGED <<content, cache, sent>>
        /\ containers' = [c \in Container |-> [containers[c] EXCEPT !.isDefault = FALSE]]
    BY <1>2 DEF ClearDefaults, At
  <2>3. \A c \in Container : containers'[c].shell = containers[c].shell
    BY <2>2 DEF EmailInv, TypeOK, EmailContainer
  <2>4. \A k \in Key : content[k].container \in Container BY DEF EmailInv, TypeOK, EmailContent
  <2>5. ASSUME NEW k \in Key, cache'[k].cached, ~WillDrop(j, k)
        PROVE  /\ cache'[k] = cache[k] /\ content'[k] = content[k] /\ ~WillDrop(job[r], k)
               /\ content[k].exists =>
                     containers'[content[k].container].shell = containers[content[k].container].shell
    BY <2>1, <2>2, <2>3, <2>4, <2>5 DEF WillDrop
  <2>6. j.at # "readContainer" BY <2>1, SeedsAreRows
  <2> QED BY <2>1, <2>2, <2>5, <2>6, StaysFresh
<1>3. CASE SaveContainer(r)
  <2>1. PICK j \in Job : job' = [job EXCEPT ![r] = j] /\ j.at = "invalidateAll"
    BY <1>3, GoesTo DEF SaveContainer
  <2>2. UNCHANGED sent BY <1>3 DEF SaveContainer
  <2> QED BY <2>1, <2>2, StaysFresh DEF WillDrop
<1>4. CASE invalidateAll(r)
  <2>1. /\ job' = [job EXCEPT ![r] = Idle] /\ UNCHANGED sent
        /\ cache' = [k \in Key |-> NoEntry]
    BY <1>4 DEF invalidateAll, Return
  <2>2. \A k \in Key : ~cache'[k].cached BY <2>1, SeedsAreRows
  <2> QED BY <2>1, <2>2, SeedsAreRows, StaysFresh
<1>5. CASE SaveContent(r)
  <2>1. PICK j \in Job : job' = [job EXCEPT ![r] = j] /\ j.at = "invalidateKey" /\ j.k = job[r].k
    BY <1>5, GoesTo DEF SaveContent
  <2>2. /\ job[r].at = "saveContent" /\ UNCHANGED <<containers, cache, sent>>
        /\ content' = [content EXCEPT ![job[r].k] = job[r].content]
    BY <1>5 DEF SaveContent, At
  <2>3. \A k \in Key : k # job[r].k => content'[k] = content[k]
    BY <2>2 DEF EmailInv, TypeOK
  <2>5. ASSUME NEW k \in Key, cache'[k].cached, ~WillDrop(j, k)
        PROVE  /\ cache'[k] = cache[k] /\ content'[k] = content[k] /\ ~WillDrop(job[r], k)
               /\ content[k].exists =>
                     containers'[content[k].container].shell = containers[content[k].container].shell
    BY <2>1, <2>2, <2>3, <2>5 DEF WillDrop
  <2>6. j.at # "readContainer" BY <2>1, SeedsAreRows
  <2> QED BY <2>1, <2>2, <2>5, <2>6, StaysFresh
<1>6. CASE invalidateKey(r)
  <2>1. /\ job' = [job EXCEPT ![r] = Idle] /\ UNCHANGED <<containers, content, sent>>
        /\ cache' = [cache EXCEPT ![job[r].k] = NoEntry] /\ job[r].at = "invalidateKey"
    BY <1>6 DEF invalidateKey, Return, At
  <2>2. job[r].k \in Key BY DEF EmailInv, TypeOK, Job
  <2>3. \A k \in Key : cache'[k] = IF k = job[r].k THEN NoEntry ELSE cache[k]
    BY <2>1, <2>2 DEF EmailInv, TypeOK
  <2>5. ASSUME NEW k \in Key, cache'[k].cached, ~WillDrop(Idle, k)
        PROVE  /\ cache'[k] = cache[k] /\ content'[k] = content[k] /\ ~WillDrop(job[r], k)
               /\ content[k].exists =>
                     containers'[content[k].container].shell = containers[content[k].container].shell
    BY <2>1, <2>3, SeedsAreRows, <2>5 DEF WillDrop
  <2>6. Idle.at # "readContainer" BY <2>1, SeedsAreRows
  <2> QED BY <2>1, <2>2, <2>5, <2>6, StaysFresh
<1> QED BY <1>1, <1>2, <1>3, <1>4, <1>5, <1>6 DEF Write

(* What is rendered of a row that is not enabled is the built-in template. *)
LEMMA DisabledFallsBack ==
  ASSUME NEW e, NEW given, NEW known, Deliver(renderForSend(e, given), known),
         known \/ ~e.content.enabled, known \in BOOLEAN
  PROVE  DisabledForcesFallback'
<1>1. sent'.known = known /\ sent'.fallback = renderForSend(e, given).fallback BY DEF Deliver
<1>2. ~e.content.enabled => renderForSend(e, given).fallback = TRUE
  BY DEF renderForSend, renderFallback
<1> QED BY <1>1, <1>2 DEF DisabledForcesFallback

(* A mail fills the cache with what the rows hold.                         *)
LEMMA FreshMail ==
  ASSUME EmailAssumption, OneRequest, EmailInv, FreshInv, NEW r \in Req, NEW given \in Given,
         FillCache(r, given) \/ \E k \in Key : loadEntry(r, k, given)
  PROVE  FreshInv'
<1>1. CASE FillCache(r, given)
  <2>1. /\ cache' = [cache EXCEPT ![job[r].k] = Loaded(r)] /\ job[r].at = "readContainer"
        /\ Deliver(renderForSend(Loaded(r), given), job[r].known)
        /\ job' = [job EXCEPT ![r] = Idle] /\ UNCHANGED <<containers, content>>
    BY <1>1, FillCaches
  <2>2. job[r].k \in Key /\ job[r].known \in BOOLEAN BY DEF EmailInv, TypeOK, Job
  <2>3. PICK e : e = Loaded(r) OBVIOUS
  <2>4. /\ e.content = job[r].content
        /\ job[r].content.exists => e.shell = containers[job[r].content.container].shell
    BY <2>3, LoadedIsEntry
  <2>5. \A k \in Key : cache'[k] = IF k = job[r].k THEN e ELSE cache[k]
    BY <2>1, <2>2, <2>3 DEF EmailInv, TypeOK
  <2>6. job[r].content = content[job[r].k] /\ (job[r].known \/ ~job[r].content.enabled)
    BY <2>1 DEF FreshInv, LoadedIsCurrent
  <2>7. job'[r] = Idle /\ \A q \in Req : q = r BY <2>1, OneJob
  <2>8. DisabledForcesFallback' BY <2>1, <2>2, <2>3, <2>4, <2>6, DisabledFallsBack
  <2>9. LoadedIsCurrent' BY <2>7, SeedsAreRows DEF LoadedIsCurrent
  <2>10. \A k \in Key, q \in Req : ~WillDrop(job[q], k) BY <2>1, <2>7 DEF WillDrop
  <2>11. EntriesFollow' BY <2>1, <2>4, <2>5, <2>6, <2>10 DEF FreshInv, EntriesFollow
  <2> QED BY <2>8, <2>9, <2>11 DEF FreshInv
<1>2. ASSUME NEW k \in Key, loadEntry(r, k, given) PROVE FreshInv'
  <2>1. CASE /\ cache[k].cached /\ job[r].at = "idle"
             /\ Deliver(renderForSend(cache[k], given), Known(k))
             /\ UNCHANGED <<containers, content, cache, job>>
    <3>1. \A q \in Req : ~WillDrop(job[q], k) BY <2>1 DEF OneRequest, WillDrop
    <3>2. cache[k].content = content[k] BY <2>1, <3>1 DEF FreshInv, EntriesFollow
    <3>3. Known(k) \in BOOLEAN /\ (Known(k) \/ ~content[k].enabled)
      BY DEF Known, EmailInv, TypeOK, EmailContent
    <3>4. DisabledForcesFallback' BY <2>1, <3>2, <3>3, DisabledFallsBack
    <3>5. EntriesFollow' /\ LoadedIsCurrent'
      BY <2>1 DEF FreshInv, EntriesFollow, LoadedIsCurrent, WillDrop
    <3> QED BY <3>4, <3>5 DEF FreshInv
  <2>2. ASSUME NEW j \in Job, ReadsRow(r, j) PROVE FreshInv'
    <3>1. /\ job[r].at = "idle" /\ job' = [job EXCEPT ![r] = j] /\ j.at = "readContainer"
          /\ j.content = content[j.k] /\ UNCHANGED <<containers, content, cache, sent>>
          /\ j.known = Known(j.k)
      BY <2>2 DEF ReadsRow
    <3>2. j.known \/ ~j.content.enabled BY <3>1 DEF Known
    <3>3. job'[r] = j /\ \A q \in Req : q = r BY <3>1, OneJob
    <3>4. LoadedIsCurrent' BY <3>1, <3>2, <3>3 DEF LoadedIsCurrent
    <3>5. \A c \in Key, q \in Req : ~WillDrop(job[q], c) BY <3>1, <3>3 DEF WillDrop
    <3>6. EntriesFollow' BY <3>1, <3>5 DEF FreshInv, EntriesFollow
    <3>7. DisabledForcesFallback' BY <3>1 DEF FreshInv, DisabledForcesFallback
    <3> QED BY <3>4, <3>6, <3>7 DEF FreshInv
  <2> QED BY <1>2, <2>1, <2>2, LoadReads
<1> QED BY <1>1, <1>2

(* A cache that forgets is as fresh as before.                             *)
LEMMA FreshForgets ==
  ASSUME EmailAssumption, EmailInv, FreshInv, Crash \/ \E k \in Key : Expire(k)
  PROVE  FreshInv'
<1>1. CASE Crash
  <2>1. /\ \A k \in Key : ~cache'[k].cached
        /\ \A r \in Req : job'[r].at = "idle"
        /\ UNCHANGED sent
    BY <1>1, SeedsAreRows DEF Crash
  <2> QED BY <2>1 DEF FreshInv, EntriesFollow, LoadedIsCurrent, DisabledForcesFallback
<1>2. ASSUME NEW k \in Key, Expire(k) PROVE FreshInv'
  <2>1. /\ \A c \in Key : cache'[c].cached => cache'[c] = cache[c]
        /\ UNCHANGED <<containers, content, job, sent>>
    BY <1>2, SeedsAreRows DEF Expire, EmailInv, TypeOK
  <2> QED BY <2>1 DEF FreshInv, EntriesFollow, LoadedIsCurrent, DisabledForcesFallback, WillDrop
<1> QED BY <1>1, <1>2

(* Every step keeps the cache fresh, with one request at a time.           *)
LEMMA FreshNext ==
  ASSUME EmailAssumption, OneRequest PROVE EmailInv /\ FreshInv /\ [Next]_vars => FreshInv'
<1> SUFFICES ASSUME EmailInv, FreshInv, [Next]_vars PROVE FreshInv' OBVIOUS
<1>1. CASE UNCHANGED vars
  BY <1>1 DEF vars, FreshInv, EntriesFollow, LoadedIsCurrent, DisabledForcesFallback, WillDrop
<1>2. ASSUME NEW r \in Req, Administer(r) \/ Write(r) PROVE FreshInv' BY <1>2, FreshEdits
<1>3. ASSUME NEW r \in Req, NEW given \in Given,
             FillCache(r, given) \/ \E k \in Key : loadEntry(r, k, given)
      PROVE  FreshInv'
  BY <1>3, FreshMail
<1>4. CASE Crash \/ \E k \in Key : Expire(k) BY <1>4, FreshForgets
<1> QED BY <1>1, <1>2, <1>3, <1>4 DEF Next

(* A fresh cache is what the properties ask for.                           *)
LEMMA FreshGives == FreshInv => CacheIsFresh /\ DisabledForcesFallback
  BY DEF FreshInv, EntriesFollow, CacheIsFresh, WillDrop, Idle

(* EmailTemplateCacheService, one request at a time, also when the process *)
(* restarts: when the handlers ended, an entry is what the database holds, *)
(* and a disabled template is not used.                                    *)
THEOREM CacheFollowsEdits ==
  ASSUME EmailAssumption, OneRequest PROVE Spec => [](CacheIsFresh /\ DisabledForcesFallback)
<1>1. Init => EmailInv /\ FreshInv BY EmailInit, FreshInit
<1>2. EmailInv /\ FreshInv /\ [Next]_vars => EmailInv' /\ FreshInv' BY EmailNext, FreshNext
<1>3. FreshInv => CacheIsFresh /\ DisabledForcesFallback BY FreshGives
<1> QED BY <1>1, <1>2, <1>3, PTL DEF Spec

-----------------------------------------------------------------------------
(* One request at a time and no restart: one container is the default.     *)

(* At first there is one default.                                          *)
LEMMA DefaultInit == ASSUME EmailAssumption PROVE Init => DefaultInv
<1> SUFFICES ASSUME Init PROVE DefaultInv OBVIOUS
<1>1. Only(First) BY DEF Init, Only, NoContainer
<1>2. \A r \in Req : job[r].at = "idle" BY SeedsAreRows DEF Init
<1> QED BY <1>1, <1>2, SeedsAreRows DEF DefaultInv

(* What DefaultInv says of the one job of a handler.                       *)
MarkIsKept(j) ==
    /\ j.at # "save" => \E d \in Container : Only(d)
    /\ j.at = "clear" => j.row.isDefault
    /\ j.at = "save" =>
          \/ j.row.isDefault /\ \A c \in Container : ~containers[c].isDefault
          \/ \E d \in Container : Only(d) /\ (j.row.isDefault <=> j.c = d)

(* The one request is all there is to look at.                             *)
LEMMA KeepsDefault ==
  ASSUME OneRequest, EmailInv, NEW r \in Req, NEW j, job' = [job EXCEPT ![r] = j], MarkIsKept(j)'
  PROVE  DefaultInv'
<1>1. job'[r] = j /\ \A q \in Req : q = r BY OneJob
<1>2. \A q \in Req : job'[q] = j BY <1>1
<1> QED BY <1>1, <1>2 DEF DefaultInv, MarkIsKept, Only

(* A job that does not change the containers and saves none.               *)
LEMMA KeepsContainers ==
  ASSUME OneRequest, EmailInv, DefaultInv, NEW r \in Req, NEW j, job' = [job EXCEPT ![r] = j],
         job[r].at # "save", UNCHANGED containers,
         j.at # "save", j.at = "clear" => j.row.isDefault
  PROVE  DefaultInv'
<1>1. \A q \in Req : q = r BY OneJob
<1>2. \E d \in Container : Only(d) BY <1>1 DEF DefaultInv
<1>3. (\E d \in Container : Only(d))' BY <1>2 DEF Only
<1>4. (j.at # "save" /\ (j.at = "clear" => j.row.isDefault))' OBVIOUS
<1>5. MarkIsKept(j)' BY <1>3, <1>4 DEF MarkIsKept
<1> QED BY <1>5, KeepsDefault

(* Every step keeps one default, or a request that will set it.            *)
LEMMA DefaultNext ==
  ASSUME EmailAssumption, OneRequest, "crash" \notin Handlers
  PROVE  EmailInv /\ DefaultInv /\ [Next]_vars => DefaultInv'
<1> SUFFICES ASSUME EmailInv, DefaultInv, [Next]_vars PROVE DefaultInv' OBVIOUS
<1>1. CASE UNCHANGED <<containers, job>> BY <1>1 DEF DefaultInv, Only
<1>2. ASSUME NEW r \in Req, Administer(r) PROVE DefaultInv'
  <2>1. PICK j \in Job : EditsContent(r, j) \/ EditsContainer(r, j) BY <1>2, AdministerEdits
  <2>2. job[r].at = "idle" /\ job' = [job EXCEPT ![r] = j] /\ UNCHANGED containers
    BY <2>1 DEF EditsContent, EditsContainer
  <2>3. CASE j.at # "save"
    <3>1. j.at = "clear" => j.row.isDefault BY <2>1 DEF EditsContent, EditsContainer
    <3> QED BY <2>2, <2>3, <3>1, KeepsContainers
  <2>4. CASE j.at = "save"
    <3>1. j.row.isDefault <=> containers[j.c].isDefault
      BY <2>1, <2>4 DEF EditsContent, EditsContainer
    <3>2. \A q \in Req : q = r BY <2>2, OneJob
    <3>3. PICK d \in Container : Only(d) BY <2>2, <3>2 DEF DefaultInv
    <3>4. j.row.isDefault <=> j.c = d BY <3>1, <3>3 DEF Only, Job
    <3>5. Only(d)' BY <2>2, <3>3 DEF Only
    <3>6. MarkIsKept(j)' BY <2>4, <3>4, <3>5 DEF MarkIsKept
    <3> QED BY <2>2, <3>6, KeepsDefault
  <2> QED BY <2>3, <2>4
<1>3. ASSUME NEW r \in Req, ClearDefaults(r) PROVE DefaultInv'
  <2>1. PICK j \in Job : job' = [job EXCEPT ![r] = j] /\ j.at = "save" /\ j.row = job[r].row
    BY <1>3, GoesTo DEF ClearDefaults
  <2>2. job[r].row.isDefault BY <1>3 DEF ClearDefaults, At, DefaultInv
  <2>3. \A c \in Container : ~containers'[c].isDefault
    BY <1>3 DEF ClearDefaults, EmailInv, TypeOK, EmailContainer
  <2>4. MarkIsKept(j)' BY <2>1, <2>2, <2>3 DEF MarkIsKept
  <2> QED BY <2>1, <2>4, KeepsDefault
<1>4. ASSUME NEW r \in Req, SaveContainer(r) PROVE DefaultInv'
  <2>1. PICK j \in Job : job' = [job EXCEPT ![r] = j] /\ j.at = "invalidateAll"
    BY <1>4, GoesTo DEF SaveContainer
  <2>2. job[r].at = "save" /\ containers' = [containers EXCEPT ![job[r].c] = job[r].row]
    BY <1>4 DEF SaveContainer, At
  <2>3. job[r].c \in Container BY DEF EmailInv, TypeOK, Job
  <2>4. \A c \in Container : containers'[c] = IF c = job[r].c THEN job[r].row ELSE containers[c]
    BY <2>2, <2>3 DEF EmailInv, TypeOK
  <2>5. CASE job[r].row.isDefault /\ \A c \in Container : ~containers[c].isDefault
    <3>1. PICK d \in Container : d = job[r].c BY <2>3
    <3>2. Only(d)' BY <2>4, <2>5, <3>1 DEF Only
    <3> QED BY <2>1, <3>2, KeepsDefault DEF MarkIsKept
  <2>6. ASSUME NEW d \in Container, Only(d), job[r].row.isDefault <=> job[r].c = d
        PROVE  DefaultInv'
    <3>1. Only(d)' BY <2>4, <2>6 DEF Only
    <3> QED BY <2>1, <3>1, KeepsDefault DEF MarkIsKept
  <2> QED BY <2>2, <2>5, <2>6 DEF DefaultInv
<1>5. ASSUME NEW r \in Req, invalidateAll(r) \/ SaveContent(r) \/ invalidateKey(r) PROVE DefaultInv'
  <2>1. job[r].at # "save" /\ UNCHANGED containers
    BY <1>5 DEF invalidateAll, SaveContent, invalidateKey, At
  <2>2. PICK j : job' = [job EXCEPT ![r] = j] /\ j.at \in {"idle", "invalidateKey"}
    <3>1. CASE SaveContent(r) BY <3>1, GoesTo DEF SaveContent
    <3>2. CASE invalidateAll(r) \/ invalidateKey(r)
      BY <3>2, SeedsAreRows DEF invalidateAll, invalidateKey, Return
    <3> QED BY <1>5, <3>1, <3>2
  <2>3. j.at # "save" /\ (j.at = "clear" => j.row.isDefault) BY <2>2
  <2> QED BY <2>1, <2>2, <2>3, KeepsContainers
<1>6. ASSUME NEW r \in Req, NEW given \in Given,
             FillCache(r, given) \/ \E k \in Key : loadEntry(r, k, given)
      PROVE  DefaultInv'
  <2>1. CASE UNCHANGED <<containers, job>> BY <2>1, <1>1
  <2>2. CASE FillCache(r, given)
    <3>1. /\ job[r].at = "readContainer" /\ job' = [job EXCEPT ![r] = Idle]
          /\ UNCHANGED containers
      BY <2>2, FillCaches
    <3>2. job[r].at # "save" /\ Idle.at # "save" /\ (Idle.at = "clear" => Idle.row.isDefault)
      BY <3>1, SeedsAreRows
    <3> QED BY <3>1, <3>2, KeepsContainers
  <2>3. ASSUME NEW j \in Job, ReadsRow(r, j) PROVE DefaultInv'
    <3>1. /\ job[r].at # "save" /\ job' = [job EXCEPT ![r] = j] /\ UNCHANGED containers
          /\ j.at = "readContainer"
      BY <2>3 DEF ReadsRow
    <3>2. j.at # "save" /\ (j.at = "clear" => j.row.isDefault) BY <3>1
    <3> QED BY <3>1, <3>2, KeepsContainers
  <2> QED BY <1>6, <2>1, <2>2, <2>3, LoadReads
<1>7. ASSUME NEW k \in Key, Expire(k) PROVE DefaultInv' BY <1>1, <1>7 DEF Expire
<1> QED BY <1>1, <1>2, <1>3, <1>4, <1>5, <1>6, <1>7 DEF Next, Write, Crash, vars

(* The containers with the mark are the one that has it.                   *)
LEMMA DefaultGives == ASSUME EmailAssumption PROVE DefaultInv => OneDefault
<1> SUFFICES ASSUME DefaultInv, \A r \in Req : job[r].at # "save"
             PROVE  Cardinality({c \in Container : containers[c].isDefault}) = 1
  BY DEF OneDefault
<1>1. PICK d \in Container : Only(d) BY DEF DefaultInv
<1>2. {c \in Container : containers[c].isDefault} = {d} BY <1>1 DEF Only
<1> QED BY <1>2, FS_Singleton

(* EmailCmsService, one request at a time: one container is the default    *)
(* except while a handler moves the mark. A process that dies after the    *)
(* first of the two statements leaves none, hence no crash here.           *)
THEOREM DefaultIsOne ==
  ASSUME EmailAssumption, OneRequest, "crash" \notin Handlers PROVE Spec => []OneDefault
<1>1. Init => EmailInv /\ DefaultInv BY EmailInit, DefaultInit
<1>2. EmailInv /\ DefaultInv /\ [Next]_vars => EmailInv' /\ DefaultInv' BY EmailNext, DefaultNext
<1>3. DefaultInv => OneDefault BY DefaultGives
<1> QED BY <1>1, <1>2, <1>3, PTL DEF Spec
-----------------------------------------------------------------------------
(* Notifications is a component of its own: job is here its events and     *)
(* requests in flight.                                                     *)

CONSTANTS Order, Guest, Unmailed, Store, Chain, Admin, Status, MaxEvents, Faults
VARIABLES rows, mails, ended, events

Notices == INSTANCE Notifications

(* The things an event does. Telling is of a user; what a hold does is     *)
(* caught, and it tells the vendor by a notification.                      *)
MailType == {"paid", "on_hold", "hold_resumed"} \cup Status
AnyStep == [do : {"tell", "mail"}, to : Notices!User \cup Order, type : MailType \cup Notices!NotificationType,
            key : Seq(Notices!Name), caught : BOOLEAN]
GoodStep == {step \in AnyStep :
               step.do = "tell" => step.to \in Notices!User /\ step.type \in Notices!NotificationType}
HoldStep == {step \in GoodStep :
               /\ step.caught
               /\ step.type \in {"vendor_order_items_on_hold", "vendor_order_items_hold_resumed"} => step.do = "tell"}

(* The steps of an event: a payment's mail comes last, after what is       *)
(* caught.                                                                 *)
IsEvent(op, steps) ==
    /\ steps \in Seq(GoodStep)
    /\ op = "hold" => steps \in Seq(HoldStep)
    /\ op = "orderPaid" => \A i \in 1 .. Len(steps) : /\ steps[i].do = "mail" => steps[i].type = "paid"
                                                      /\ i < Len(steps) => steps[i].caught

(* The first n steps were done, or failed.                                 *)
StepDone(step) == IF step.do = "tell" THEN Notices!Told(step) ELSE <<step.to, step.type>> \in mails
StepsDone(steps, n, failed) == \A i \in 1 .. n : i \in failed \/ StepDone(steps[i])

Event == [at : {"idle", "run", "save", "markRead"}, op : Notices!User \cup Notices!AllHandlers \cup {"none"},
          steps : Seq(GoodStep), n : Nat, failed : SUBSET Nat, row : Nat]

EventKnows(j) ==
    /\ j.at \in {"run", "save"} => /\ IsEvent(j.op, j.steps) /\ j.n \in 1 .. Len(j.steps)
                                   /\ StepsDone(j.steps, j.n - 1, j.failed)
    /\ j.at = "save" => j.steps[j.n].do = "tell"
    /\ j.at = "markRead" => j.row \in DOMAIN rows

(* An event ended with its last step, or with one that failed uncaught.    *)
HasEnded(e) ==
    /\ IsEvent(e.op, e.steps)
    /\ \E n \in 1 .. Len(e.steps) : /\ StepsDone(e.steps, n, e.failed)
                                    /\ n = Len(e.steps) \/ (n \in e.failed /\ ~e.steps[n].caught)

NoticesInv ==
    /\ rows \in Seq(Notices!UserNotification)
    /\ job \in [Req -> Event] /\ \A r \in Req : EventKnows(job[r])
    /\ \A e \in ended : HasEnded(e)

(* One at a time, what is about to be inserted is not there.               *)
LookedFirst ==
    /\ Notices!NoDuplicates
    /\ \A r \in Req : job[r].at = "save" => ~Notices!Told(Notices!Step(r))

-----------------------------------------------------------------------------
(* A finite set is listed by a sequence of its elements.                   *)
LEMMA ListOf == ASSUME NEW S, Notices!IsFiniteSet(S) PROVE Notices!SetToSeq(S) \in Seq(S)
<1>0. IsFiniteSet(S)
  BY DEF IsFiniteSet, Notices!IsFiniteSet
<1>1. /\ Cardinality(S) \in Nat
      /\ \E f \in [1 .. Cardinality(S) -> S] : \A a, b \in 1 .. Cardinality(S) : f[a] = f[b] => a = b
  BY <1>0, FS_CardinalityType DEF ExistsBijection, Bijection, Injection, IsInjective
<1>2. \E f \in [1 .. Cardinality(S) -> S] : Notices!IsInjective(f)
  BY <1>1 DEF Notices!IsInjective
<1>3. Notices!Cardinality(S) = Cardinality(S)
  BY DEF Cardinality, Notices!Cardinality
<1>4. Notices!SetToSeq(S) \in [1 .. Cardinality(S) -> S]
  BY <1>2, <1>3 DEF Notices!SetToSeq
<1> QED BY <1>1, <1>4

(* What an event tells a user is a step.                                   *)
LEMMA TellsUser ==
  ASSUME NEW to \in Notices!User, NEW type \in Notices!NotificationType, NEW key \in Seq(Notices!Name),
         NEW caught \in BOOLEAN
  PROVE  /\ Notices!Tell(to, type, key, caught) \in GoodStep
         /\ caught => Notices!Tell(to, type, key, caught) \in HoldStep
  BY DEF Notices!Tell, GoodStep, HoldStep, AnyStep

(* What an event mails is a step.                                          *)
LEMMA MailsOrder ==
  ASSUME NEW to \in Order, NEW type \in MailType, NEW key \in Seq(Notices!Name), NEW caught \in BOOLEAN
  PROVE  /\ Notices!Mail(to, type, key, caught) \in GoodStep
         /\ caught /\ type \notin {"vendor_order_items_on_hold", "vendor_order_items_hold_resumed"} =>
                Notices!Mail(to, type, key, caught) \in HoldStep
  BY DEF Notices!Mail, GoodStep, HoldStep, AnyStep

(* Owners, customers with an account and admins are users.                 *)
LEMMA UsersAre ==
  ASSUME Notices!NotificationAssumption
  PROVE  /\ \A s \in Store : Notices!OwnerOf(s) \in Notices!User /\ s \in Notices!Name
         /\ \A o \in Order : o \in Notices!Name
         /\ \A o \in Order \ Guest : Notices!CustomerOf(o) \in Notices!User
         /\ Admin \subseteq Notices!User
         /\ Notices!IsFiniteSet(Store) /\ Notices!IsFiniteSet(Admin) /\ Status \subseteq Notices!Name
         /\ \A S \in SUBSET Store : Notices!IsFiniteSet(S)
<1>1. ASSUME NEW S \in SUBSET Store PROVE Notices!IsFiniteSet(S)
  <2>1. IsFiniteSet(Store)
    BY DEF Notices!NotificationAssumption, IsFiniteSet, Notices!IsFiniteSet
  <2>2. IsFiniteSet(S)
    BY <2>1, FS_Subset
  <2> QED BY <2>2 DEF IsFiniteSet, Notices!IsFiniteSet
<1> QED BY <1>1 DEF Notices!NotificationAssumption, Notices!User, Notices!OwnerOf, Notices!CustomerOf, Notices!Name

(* Of two lists of steps, of which the first may be left out.              *)
LEMMA StepsFollow ==
  ASSUME NEW X, NEW s \in Seq(X), NEW t \in Seq(X), NEW p
  PROVE  /\ Notices!When(p, s) \o t \in Seq(X)
         /\ Notices!When(p, s) \in Seq(X)
  BY DEF Notices!When

(* Keys are of names.                                                      *)
LEMMA KeysAre ==
  ASSUME NEW S, NEW a \in S, NEW b \in S
  PROVE  <<a>> \in Seq(S) /\ <<a, b>> \in Seq(S)
<1>1. <<a>> \in Seq(S)
  OBVIOUS
<1>2. <<a, b>> \in Seq(S)
  OBVIOUS
<1> QED BY <1>1, <1>2

(* One step for each of a list.                                            *)
LEMMA StepsOfList ==
  ASSUME NEW S, NEW X, NEW list \in Seq(S), NEW f, f = [i \in 1 .. Len(list) |-> f[i]],
         \A i \in 1 .. Len(list) : list[i] \in S => f[i] \in X
  PROVE  f \in Seq(X)
<1>1. Len(list) \in Nat /\ \A i \in 1 .. Len(list) : list[i] \in S
  OBVIOUS
<1>2. f \in [1 .. Len(list) -> X]
  BY <1>1
<1> QED BY <1>1, <1>2

(* What an event tells the owner of every store.                           *)
OwnersTold(S, type, key) ==
    [i \in 1 .. Len(Notices!SetToSeq(S)) |->
        Notices!Tell(Notices!OwnerOf(Notices!SetToSeq(S)[i]), type, key, FALSE)]

(* That is a list of steps.                                                *)
LEMMA OwnersAreTold ==
  ASSUME Notices!NotificationAssumption, NEW S \in SUBSET Store, NEW type \in Notices!NotificationType,
         NEW key \in Seq(Notices!Name)
  PROVE  OwnersTold(S, type, key) \in Seq(GoodStep)
<1> DEFINE list == Notices!SetToSeq(S)
<1>1. list \in Seq(S)
  BY ListOf, UsersAre
<1>2. ASSUME NEW i \in 1 .. Len(list), list[i] \in S
      PROVE  Notices!Tell(Notices!OwnerOf(list[i]), type, key, FALSE) \in GoodStep
  <2>1. PICK owner \in Notices!User : owner = Notices!OwnerOf(list[i])
    BY <1>2, UsersAre
  <2>2. Notices!Tell(owner, type, key, FALSE) \in GoodStep
    BY TellsUser
  <2> QED BY <2>1, <2>2
<1>3. PICK f : f = OwnersTold(S, type, key)
  OBVIOUS
<1>4. f = [i \in 1 .. Len(list) |-> f[i]]
  BY <1>3 DEF OwnersTold
<1>5. \A i \in 1 .. Len(list) : list[i] \in S => f[i] \in GoodStep
  BY <1>2, <1>3 DEF OwnersTold
<1> HIDE DEF list
<1>6. f \in Seq(GoodStep)
  BY <1>1, <1>4, <1>5, StepsOfList
<1> QED BY <1>3, <1>6

(* What an event tells the owner of every store.                           *)
LEMMA VendorsAreTold ==
  ASSUME Notices!NotificationAssumption, NEW o \in Order
  PROVE  /\ Notices!notifyVendorsAboutNewOrder(o) \in Seq(GoodStep)
         /\ \A status \in Status : Notices!notifyVendorsAboutOrderStatus(o, status) \in Seq(GoodStep)
<1>1. PICK c \in Notices!Name : c = o
  BY UsersAre
<1>2. Store \in SUBSET Store
  OBVIOUS
<1>3. "new_order" \in Notices!NotificationType /\ "order_status_changed" \in Notices!NotificationType
  BY DEF Notices!NotificationType
<1>4. Notices!notifyVendorsAboutNewOrder(o) \in Seq(GoodStep)
  <2>1. PICK key \in Seq(Notices!Name) : key = <<c>>
    BY KeysAre
  <2>2. Notices!notifyVendorsAboutNewOrder(o) = OwnersTold(Store, "new_order", key)
    BY <1>1, <2>1 DEF Notices!notifyVendorsAboutNewOrder, Notices!ForEach, OwnersTold
  <2>3. OwnersTold(Store, "new_order", key) \in Seq(GoodStep)
    BY <1>2, <1>3, OwnersAreTold
  <2> QED BY <2>2, <2>3
<1>5. ASSUME NEW status \in Status PROVE Notices!notifyVendorsAboutOrderStatus(o, status) \in Seq(GoodStep)
  <2>1. PICK st \in Notices!Name : st = status
    BY UsersAre
  <2>2. PICK key \in Seq(Notices!Name) : key = <<c, st>>
    BY KeysAre
  <2>3. Notices!notifyVendorsAboutOrderStatus(o, status) = OwnersTold(Store, "order_status_changed", key)
    BY <1>1, <2>1, <2>2 DEF Notices!notifyVendorsAboutOrderStatus, Notices!ForEach, OwnersTold
  <2>4. OwnersTold(Store, "order_status_changed", key) \in Seq(GoodStep)
    BY <1>2, <1>3, OwnersAreTold
  <2> QED BY <2>3, <2>4
<1> QED BY <1>4, <1>5

(* What an event tells the owners of some stores about each, and admins.   *)
LEMMA OthersAreTold ==
  ASSUME Notices!NotificationAssumption, NEW stores \in SUBSET Store, NEW name \in {"request", "payout", "brand"}
  PROVE  /\ Notices!notifyVendorsAboutTaxonomyDeleted(stores, name) \in Seq(GoodStep)
         /\ Notices!notifyAdminAboutNewRequest(name) \in Seq(GoodStep)
         /\ Notices!notifyAdminsAboutManualPayoutRequest(name) \in Seq(GoodStep)
<1>0. PICK n \in Notices!Name : n = name
  BY DEF Notices!Name
<1>1. Notices!notifyVendorsAboutTaxonomyDeleted(stores, name) \in Seq(GoodStep)
  <2> DEFINE list == Notices!SetToSeq(stores)
  <2>1. list \in Seq(stores)
    BY ListOf, UsersAre
  <2>2. PICK f : f = Notices!notifyVendorsAboutTaxonomyDeleted(stores, name)
    OBVIOUS
  <2>3. f = [i \in 1 .. Len(list) |-> Notices!Tell(Notices!OwnerOf(list[i]), "taxonomy_deleted", <<list[i], n>>, FALSE)]
    BY <1>0, <2>2 DEF Notices!notifyVendorsAboutTaxonomyDeleted, Notices!ForEach
  <2>4. ASSUME NEW i \in 1 .. Len(list), list[i] \in stores PROVE f[i] \in GoodStep
    <3>1. PICK owner \in Notices!User, s \in Notices!Name : owner = Notices!OwnerOf(list[i]) /\ s = list[i]
      BY <2>4, UsersAre
    <3>2. PICK key \in Seq(Notices!Name) : key = <<s, n>>
      BY KeysAre
    <3>3. f[i] = Notices!Tell(owner, "taxonomy_deleted", key, FALSE)
      BY <2>3, <3>1, <3>2
    <3>4. Notices!Tell(owner, "taxonomy_deleted", key, FALSE) \in GoodStep
      BY TellsUser DEF Notices!NotificationType
    <3> QED BY <3>3, <3>4
  <2>5. f = [i \in 1 .. Len(list) |-> f[i]]
    BY <2>3
  <2> HIDE DEF list
  <2>6. f \in Seq(GoodStep)
    BY <2>1, <2>4, <2>5, StepsOfList
  <2> QED BY <2>2, <2>6
<1>2. ASSUME NEW type \in {"new_store_request", "manual_payout_request"}, NEW f,
             f = Notices!ForEach(Admin, LAMBDA a : Notices!Tell(a, type, <<name>>, FALSE))
      PROVE  f \in Seq(GoodStep)
  <2> DEFINE list == Notices!SetToSeq(Admin)
  <2>1. list \in Seq(Admin)
    BY ListOf, UsersAre
  <2>3. f = [i \in 1 .. Len(list) |-> Notices!Tell(list[i], type, <<n>>, FALSE)]
    BY <1>0, <1>2 DEF Notices!ForEach
  <2>4. ASSUME NEW i \in 1 .. Len(list), list[i] \in Admin PROVE f[i] \in GoodStep
    <3>1. PICK admin \in Notices!User : admin = list[i]
      BY <2>4, UsersAre
    <3>2. PICK key \in Seq(Notices!Name) : key = <<n>>
      BY KeysAre
    <3>3. f[i] = Notices!Tell(admin, type, key, FALSE)
      BY <2>3, <3>1, <3>2
    <3>4. Notices!Tell(admin, type, key, FALSE) \in GoodStep
      BY TellsUser DEF Notices!NotificationType
    <3> QED BY <3>3, <3>4
  <2>5. f = [i \in 1 .. Len(list) |-> f[i]]
    BY <2>3
  <2> HIDE DEF list
  <2> QED BY <2>1, <2>4, <2>5, StepsOfList
<1>3. Notices!notifyAdminAboutNewRequest(name) \in Seq(GoodStep)
  BY <1>2 DEF Notices!notifyAdminAboutNewRequest
<1>4. Notices!notifyAdminsAboutManualPayoutRequest(name) \in Seq(GoodStep)
  BY <1>2 DEF Notices!notifyAdminsAboutManualPayoutRequest
<1> QED BY <1>1, <1>3, <1>4

(* What an event tells one owner.                                          *)
LEMMA OwnerIsTold ==
  ASSUME Notices!NotificationAssumption, NEW s \in Store, NEW status \in {"approved", "rejected"},
         NEW success \in {"true", "false"}
  PROVE  /\ Notices!notifyVendorAboutStoreStatus(s, status) \in Seq(GoodStep)
         /\ Notices!notifyVendorAboutRequestStatus(s, "request", success) \in Seq(GoodStep)
<1>1. PICK owner \in Notices!User, c \in Notices!Name, st \in Notices!Name, q \in Notices!Name, ok \in Notices!Name :
         /\ owner = Notices!OwnerOf(s) /\ c = s /\ st = status /\ q = "request" /\ ok = success
  BY UsersAre DEF Notices!Name
<1>2. PICK one \in Seq(Notices!Name), two \in Seq(Notices!Name) : one = <<c, st>> /\ two = <<q, ok>>
  BY KeysAre
<1>3. PICK x \in GoodStep, y \in GoodStep : /\ x = Notices!Tell(owner, "store_status_changed", one, FALSE)
                                            /\ y = Notices!Tell(owner, "request_status_changed", two, FALSE)
  BY TellsUser DEF Notices!NotificationType
<1>4. <<x>> \in Seq(GoodStep) /\ <<y>> \in Seq(GoodStep)
  BY KeysAre
<1>5. /\ Notices!notifyVendorAboutStoreStatus(s, status) = <<x>>
      /\ Notices!notifyVendorAboutRequestStatus(s, "request", success) = <<y>>
  BY <1>1, <1>2, <1>3 DEF Notices!notifyVendorAboutStoreStatus, Notices!notifyVendorAboutRequestStatus
<1> QED BY <1>4, <1>5

(* What the customer of an order is told and mailed about its status.      *)
LEMMA CustomerIsTold ==
  ASSUME Notices!NotificationAssumption, NEW o \in Order, NEW caught \in BOOLEAN,
         NEW status \in Status \cup {"on_hold", "hold_resumed"}
  PROVE  /\ Notices!notifyOrderStatusChanged(o, status, caught) \in Seq(GoodStep)
         /\ caught /\ status \in {"on_hold", "hold_resumed"} =>
               Notices!notifyOrderStatusChanged(o, status, caught) \in Seq(HoldStep)
<1>1. PICK c \in Notices!Name, st \in Notices!Name : c = o /\ st = status
  BY UsersAre DEF Notices!Name
<1>2. PICK key \in Seq(Notices!Name) : key = <<c, st>>
  BY KeysAre
<1>3. PICK y \in GoodStep : y = Notices!Mail(o, status, key, caught)
  BY MailsOrder DEF MailType
<1>4. caught /\ status \in {"on_hold", "hold_resumed"} => y \in HoldStep
  BY <1>3, MailsOrder DEF MailType
<1>5. <<y>> \in Seq(GoodStep) /\ (y \in HoldStep => <<y>> \in Seq(HoldStep))
  BY KeysAre
<1>6. PICK b : b = Notices!When(o \notin Unmailed, <<y>>)
  OBVIOUS
<1>7. b \in Seq(GoodStep) /\ (y \in HoldStep => b \in Seq(HoldStep))
  BY <1>5, <1>6, StepsFollow
<1>8. CASE o \notin Guest /\ status \notin Notices!EMAIL_ONLY_STATUS_NOTIFICATIONS
  <2>1. PICK customer \in Notices!User : customer = Notices!CustomerOf(o)
    BY <1>8, UsersAre
  <2>2. PICK x \in GoodStep : x = Notices!Tell(customer, "order_status_changed", key, TRUE)
    BY TellsUser DEF Notices!NotificationType
  <2>3. <<x>> \in Seq(GoodStep)
    BY KeysAre
  <2>4. Notices!notifyOrderStatusChanged(o, status, caught) = <<x>> \o b
    BY <1>1, <1>2, <1>3, <1>6, <1>8, <2>1, <2>2 DEF Notices!notifyOrderStatusChanged, Notices!When
  <2>5. <<x>> \o b \in Seq(GoodStep)
    BY <1>7, <2>3
  <2> QED BY <1>8, <2>4, <2>5 DEF Notices!EMAIL_ONLY_STATUS_NOTIFICATIONS
<1>9. CASE ~(o \notin Guest /\ status \notin Notices!EMAIL_ONLY_STATUS_NOTIFICATIONS)
  <2>1. Notices!notifyOrderStatusChanged(o, status, caught) = <<>> \o b
    BY <1>1, <1>2, <1>3, <1>6, <1>9 DEF Notices!notifyOrderStatusChanged, Notices!When
  <2>2. <<>> \o b = b
    BY <1>7
  <2> QED BY <1>4, <1>7, <2>1, <2>2
<1> QED BY <1>8, <1>9

(* Two lists of steps, one after the other.                                *)
LEMMA ListsFollow ==
  ASSUME NEW X, NEW s \in Seq(X), NEW t \in Seq(X)
  PROVE  s \o t \in Seq(X)
  OBVIOUS

(* The status of an order changed.                                         *)
LEMMA StatusIsEvent ==
  ASSUME Notices!NotificationAssumption, NEW o \in Order, NEW status \in Status
  PROVE  IsEvent("statusChanged", Notices!StatusChanged(o, status))
<1>1. /\ Notices!notifyOrderStatusChanged(o, status, FALSE) \in Seq(GoodStep)
      /\ Notices!notifyVendorsAboutOrderStatus(o, status) \in Seq(GoodStep)
  BY CustomerIsTold, VendorsAreTold
<1>2. Notices!StatusChanged(o, status) \in Seq(GoodStep)
  BY <1>1, ListsFollow DEF Notices!StatusChanged
<1> QED BY <1>2 DEF IsEvent

(* Lines were held, or are resumed: what the event does is caught.         *)
LEMMA HoldIsEvent ==
  ASSUME Notices!NotificationAssumption, NEW o \in Order, NEW s \in Store, NEW event \in {"on_hold", "hold_resumed"}
  PROVE  IsEvent("hold", Notices!notifyHoldEvent(o, s, event))
<1>1. PICK c \in Notices!Name, st \in Notices!Name, owner \in Notices!User :
         c = o /\ st = s /\ owner = Notices!OwnerOf(s)
  BY UsersAre
<1>2. PICK key \in Seq(Notices!Name) : key = <<c, st>>
  BY KeysAre
<1>3. PICK told \in Seq(HoldStep) :
         told = Notices!When(o \notin Guest,
                    <<Notices!Tell(Notices!CustomerOf(o), Notices!CustomerHold[event], key, TRUE)>>)
  <2>1. CASE o \notin Guest
    <3>1. PICK customer \in Notices!User : customer = Notices!CustomerOf(o)
      BY <2>1, UsersAre
    <3>2. Notices!CustomerHold[event] \in Notices!NotificationType
      BY DEF Notices!CustomerHold, Notices!NotificationType
    <3>3. PICK x \in HoldStep : x = Notices!Tell(customer, Notices!CustomerHold[event], key, TRUE)
      BY <3>2, TellsUser
    <3>4. <<x>> \in Seq(HoldStep)
      BY KeysAre
    <3> QED BY <2>1, <3>1, <3>3, <3>4 DEF Notices!When
  <2>2. CASE o \in Guest
    <3>1. <<>> \in Seq(HoldStep)
      OBVIOUS
    <3>2. Notices!When(o \notin Guest,
              <<Notices!Tell(Notices!CustomerOf(o), Notices!CustomerHold[event], key, TRUE)>>) = <<>>
      BY <2>2 DEF Notices!When
    <3> QED BY <3>1, <3>2
  <2> QED BY <2>1, <2>2
<1>4. PICK mailed \in Seq(HoldStep) : mailed = Notices!notifyOrderStatusChanged(o, event, TRUE)
  BY CustomerIsTold
<1>5. PICK vendor \in Seq(HoldStep) : vendor = <<Notices!Tell(owner, Notices!VendorHold[event], key, TRUE)>>
  <2>1. Notices!VendorHold[event] \in Notices!NotificationType
    BY DEF Notices!VendorHold, Notices!NotificationType
  <2>2. PICK x \in HoldStep : x = Notices!Tell(owner, Notices!VendorHold[event], key, TRUE)
    BY <2>1, TellsUser
  <2>3. <<x>> \in Seq(HoldStep)
    BY KeysAre
  <2> QED BY <2>2, <2>3
<1>6. Notices!notifyHoldEvent(o, s, event) = (told \o mailed) \o vendor
  BY <1>1, <1>2, <1>3, <1>4, <1>5 DEF Notices!notifyHoldEvent
<1>7. (told \o mailed) \o vendor \in Seq(HoldStep)
  BY ListsFollow
<1>8. Seq(HoldStep) \subseteq Seq(GoodStep)
  BY DEF HoldStep
<1> QED BY <1>6, <1>7, <1>8 DEF IsEvent

(* One element, and another one or none.                                   *)
LEMMA ListsJoin ==
  ASSUME NEW S, NEW x \in S, NEW y \in S
  PROVE  <<x>> \o <<y>> = <<x, y>> /\ <<x>> \o <<>> = <<x>>
<1>1. <<x>> \o <<y>> = <<x, y>>
  <2>1. PICK s \in Seq(S), t \in Seq(S), u \in Seq(S) : s = <<x>> /\ t = <<y>> /\ u = <<x, y>>
    BY KeysAre
  <2>2. Len(s) = 1 /\ s[1] = x /\ Len(t) = 1 /\ t[1] = y /\ Len(u) = 2 /\ u[1] = x /\ u[2] = y
    BY <2>1
  <2>3. /\ s \o t \in Seq(S) /\ Len(s \o t) = Len(s) + Len(t)
        /\ \A i \in 1 .. Len(s) + Len(t) : (s \o t)[i] = IF i <= Len(s) THEN s[i] ELSE t[i - Len(s)]
    BY ConcatProperties
  <2>4. \A i \in 1 .. Len(u) : (s \o t)[i] = u[i]
    <3>1. (s \o t)[1] = u[1] /\ (s \o t)[2] = u[2]
      BY <2>2, <2>3
    <3>2. \A i \in 1 .. Len(u) : i = 1 \/ i = 2
      BY <2>2
    <3> QED BY <3>1, <3>2
  <2>5. Len(s \o t) = Len(u)
    BY <2>2, <2>3
  <2>6. s \o t = u
    BY <2>3, <2>4, <2>5, SeqEqual
  <2> QED BY <2>1, <2>6
<1>2. <<x>> \o <<>> = <<x>>
  OBVIOUS
<1> QED BY <1>1, <1>2

(* At most a notification and a mail.                                      *)
LEMMA PaidLists ==
  ASSUME NEW y \in GoodStep, y.do = "mail", y.type = "paid"
  PROVE  /\ IsEvent("orderPaid", <<y>>) /\ IsEvent("orderPaid", <<>>)
         /\ \A x \in GoodStep : x.do = "tell" /\ x.caught =>
               IsEvent("orderPaid", <<x, y>>) /\ IsEvent("orderPaid", <<x>>)
<1>1. ASSUME NEW x \in GoodStep, x.do = "tell", x.caught, NEW s \in Seq(GoodStep), s = <<x, y>>
      PROVE  IsEvent("orderPaid", s)
  <2>1. Len(s) = 2 /\ s[1] = x /\ s[2] = y
    BY <1>1
  <2>2. \A i \in 1 .. Len(s) : i = 1 \/ i = 2
    BY <2>1
  <2> QED BY <1>1, <2>1, <2>2 DEF IsEvent
<1>2. ASSUME NEW z \in GoodStep, z.do = "tell" \/ z.type = "paid", NEW s \in Seq(GoodStep), s = <<z>>
      PROVE  IsEvent("orderPaid", s)
  <2>1. Len(s) = 1 /\ s[1] = z
    BY <1>2
  <2>2. \A i \in 1 .. Len(s) : i = 1
    BY <2>1
  <2> QED BY <1>2, <2>1, <2>2 DEF IsEvent
<1>3. ASSUME NEW s \in Seq(GoodStep), s = <<>> PROVE IsEvent("orderPaid", s)
  <2>1. Len(s) = 0
    BY <1>3
  <2>2. \A i \in 1 .. Len(s) : FALSE
    BY <2>1
  <2> QED BY <2>2 DEF IsEvent
<1>4. \A x \in GoodStep : <<x, y>> \in Seq(GoodStep) /\ <<x>> \in Seq(GoodStep)
  BY KeysAre
<1>5. <<y>> \in Seq(GoodStep) /\ <<>> \in Seq(GoodStep)
  BY KeysAre
<1>6. IsEvent("orderPaid", <<y>>) /\ IsEvent("orderPaid", <<>>)
  BY <1>2, <1>3, <1>5
<1>7. ASSUME NEW x \in GoodStep, x.do = "tell", x.caught
      PROVE  IsEvent("orderPaid", <<x, y>>) /\ IsEvent("orderPaid", <<x>>)
  BY <1>1, <1>2, <1>4, <1>7
<1> QED BY <1>6, <1>7

(* An order was paid: the mail comes last.                                 *)
LEMMA PaidIsEvent ==
  ASSUME Notices!NotificationAssumption, NEW o \in Order
  PROVE  IsEvent("orderPaid", Notices!notifyOrderPaid(o))
<1>1. PICK c \in Notices!Name : c = o
  BY UsersAre
<1>2. PICK key \in Seq(Notices!Name) : key = <<c>>
  BY KeysAre
<1>3. PICK y \in GoodStep : y = Notices!Mail(o, "paid", key, FALSE)
  BY MailsOrder DEF MailType
<1>4. y.do = "mail" /\ y.type = "paid"
  BY <1>3 DEF Notices!Mail
<1>5. CASE o \notin Guest
  <2>1. PICK customer \in Notices!User : customer = Notices!CustomerOf(o)
    BY <1>5, UsersAre
  <2>2. PICK x \in GoodStep : x = Notices!Tell(customer, "payment_received", key, TRUE)
    BY TellsUser DEF Notices!NotificationType
  <2>3. x.do = "tell" /\ x.caught
    BY <2>2 DEF Notices!Tell
  <2>4. Notices!notifyOrderPaid(o) = <<x>> \o Notices!When(o \notin Unmailed, <<y>>)
    BY <1>1, <1>2, <1>3, <1>5, <2>1, <2>2 DEF Notices!notifyOrderPaid, Notices!When
  <2>5. <<x>> \o <<y>> = <<x, y>> /\ <<x>> \o <<>> = <<x>>
    BY ListsJoin
  <2>6. Notices!notifyOrderPaid(o) = <<x, y>> \/ Notices!notifyOrderPaid(o) = <<x>>
    BY <2>4, <2>5 DEF Notices!When
  <2> QED BY <1>4, <2>3, <2>6, PaidLists
<1>6. CASE o \in Guest
  <2>1. Notices!notifyOrderPaid(o) = <<>> \o Notices!When(o \notin Unmailed, <<y>>)
    BY <1>1, <1>2, <1>3, <1>6 DEF Notices!notifyOrderPaid, Notices!When
  <2>2. <<>> \o <<y>> = <<y>> /\ <<>> \o <<>> = <<>>
    OBVIOUS
  <2>3. Notices!notifyOrderPaid(o) = <<y>> \/ Notices!notifyOrderPaid(o) = <<>>
    BY <2>1, <2>2 DEF Notices!When
  <2> QED BY <1>4, <2>3, PaidLists
<1> QED BY <1>5, <1>6

(* What is raised is one of these events.                                  *)
LEMMA EventsAre ==
  ASSUME Notices!NotificationAssumption, NEW r \in Req, Notices!OrderEvents(r) \/ Notices!StoreEvents(r)
  PROVE  \E op \in Notices!AllHandlers, steps \in Seq(GoodStep) : IsEvent(op, steps) /\ Notices!Raise(r, op, steps)
<1>0. \A op, steps : Notices!Raise(r, op, steps) => op \in Notices!AllHandlers
  BY DEF Notices!Raise, Notices!NotificationAssumption
<1>1. \A op, steps : IsEvent(op, steps) => steps \in Seq(GoodStep)
  BY DEF IsEvent
<1>2. SUFFICES \E op, steps : IsEvent(op, steps) /\ Notices!Raise(r, op, steps)
  BY <1>0, <1>1
<1>3. \A op, steps : op \notin {"hold", "orderPaid"} /\ steps \in Seq(GoodStep) => IsEvent(op, steps)
  BY DEF IsEvent
<1>4. CASE Notices!OrderEvents(r)
  <2>1. PICK o \in Order :
          \/ Notices!Raise(r, "orderPaid", Notices!notifyOrderPaid(o))
          \/ Notices!Raise(r, "newOrder", Notices!notifyVendorsAboutNewOrder(o))
          \/ \E status \in Status : Notices!Raise(r, "statusChanged", Notices!StatusChanged(o, status))
          \/ \E s \in Store, event \in {"on_hold", "hold_resumed"} :
                Notices!Raise(r, "hold", Notices!notifyHoldEvent(o, s, event))
    BY <1>4 DEF Notices!OrderEvents
  <2>2. IsEvent("orderPaid", Notices!notifyOrderPaid(o))
    BY PaidIsEvent
  <2>3. IsEvent("newOrder", Notices!notifyVendorsAboutNewOrder(o))
    BY <1>3, VendorsAreTold
  <2>4. \A status \in Status : IsEvent("statusChanged", Notices!StatusChanged(o, status))
    BY StatusIsEvent
  <2>5. \A s \in Store, event \in {"on_hold", "hold_resumed"} : IsEvent("hold", Notices!notifyHoldEvent(o, s, event))
    BY HoldIsEvent
  <2> QED BY <2>1, <2>2, <2>3, <2>4, <2>5
<1>5. CASE Notices!StoreEvents(r)
  <2>1. \/ Notices!Raise(r, "storeRequest", Notices!notifyAdminAboutNewRequest("request"))
        \/ Notices!Raise(r, "manualPayout", Notices!notifyAdminsAboutManualPayoutRequest("payout"))
        \/ \E s \in Store, status \in {"approved", "rejected"} :
              Notices!Raise(r, "storeStatus", Notices!notifyVendorAboutStoreStatus(s, status))
        \/ \E s \in Store, success \in {"true", "false"} :
              Notices!Raise(r, "requestStatus", Notices!notifyVendorAboutRequestStatus(s, "request", success))
        \/ \E stores \in SUBSET Store :
              Notices!Raise(r, "taxonomyDeleted", Notices!notifyVendorsAboutTaxonomyDeleted(stores, "brand"))
    BY <1>5 DEF Notices!StoreEvents
  <2>2. IsEvent("storeRequest", Notices!notifyAdminAboutNewRequest("request"))
    <3>1. PICK stores \in SUBSET Store : TRUE
      OBVIOUS
    <3>2. PICK name \in {"request", "payout", "brand"} : name = "request"
      OBVIOUS
    <3>3. Notices!notifyAdminAboutNewRequest(name) \in Seq(GoodStep)
      BY OthersAreTold
    <3> QED BY <1>3, <3>2, <3>3
  <2>3. IsEvent("manualPayout", Notices!notifyAdminsAboutManualPayoutRequest("payout"))
    <3>1. PICK stores \in SUBSET Store : TRUE
      OBVIOUS
    <3>2. PICK name \in {"request", "payout", "brand"} : name = "payout"
      OBVIOUS
    <3>3. Notices!notifyAdminsAboutManualPayoutRequest(name) \in Seq(GoodStep)
      BY OthersAreTold
    <3> QED BY <1>3, <3>2, <3>3
  <2>4. \A s \in Store, status \in {"approved", "rejected"} :
          IsEvent("storeStatus", Notices!notifyVendorAboutStoreStatus(s, status))
    <3>1. PICK success \in {"true", "false"} : TRUE
      OBVIOUS
    <3> QED BY <1>3, OwnerIsTold
  <2>5. \A s \in Store, success \in {"true", "false"} :
          IsEvent("requestStatus", Notices!notifyVendorAboutRequestStatus(s, "request", success))
    <3>1. PICK status \in {"approved", "rejected"} : TRUE
      OBVIOUS
    <3> QED BY <1>3, OwnerIsTold
  <2>6. \A stores \in SUBSET Store :
          IsEvent("taxonomyDeleted", Notices!notifyVendorsAboutTaxonomyDeleted(stores, "brand"))
    BY <1>3, OthersAreTold
  <2> QED BY <2>1, <2>2, <2>3, <2>4, <2>5, <2>6
<1> QED BY <1>4, <1>5

-----------------------------------------------------------------------------
(* Nothing happened yet.                                                   *)
LEMMA NoticesInit == ASSUME Notices!NotificationAssumption PROVE Notices!Init => NoticesInv /\ LookedFirst
<1> SUFFICES ASSUME Notices!Init PROVE NoticesInv /\ LookedFirst
  OBVIOUS
<1>1. rows = <<>> /\ ended = {} /\ job = [r \in Req |-> Notices!Idle]
  BY DEF Notices!Init
<1>2. rows \in Seq(Notices!UserNotification) /\ \A i \in DOMAIN rows : FALSE
  BY <1>1
<1>3. Notices!Idle \in Event /\ Notices!Idle.at = "idle"
  BY DEF Notices!Idle, Event
<1>4. job \in [Req -> Event] /\ \A r \in Req : job[r].at = "idle"
  BY <1>1, <1>3
<1>5. NoticesInv
  BY <1>1, <1>2, <1>4 DEF NoticesInv, EventKnows
<1>6. LookedFirst
  BY <1>2, <1>4 DEF LookedFirst, Notices!NoDuplicates
<1> QED BY <1>5, <1>6

(* Notifications stay, read or not.                                        *)
RowsKept ==
    /\ rows' \in Seq(Notices!UserNotification)
    /\ \A i \in DOMAIN rows : /\ i \in DOMAIN rows'
                              /\ rows'[i].to = rows[i].to /\ rows'[i].type = rows[i].type /\ rows'[i].key = rows[i].key

(* So what was done stays done.                                            *)
LEMMA StaysDone ==
  ASSUME RowsKept, mails \subseteq mails'
  PROVE  /\ \A step : StepDone(step) => StepDone(step)'
         /\ \A steps, n, failed : StepsDone(steps, n, failed) => StepsDone(steps, n, failed)'
         /\ \A j : EventKnows(j) => EventKnows(j)'
         /\ \A e : HasEnded(e) => HasEnded(e)'
<1>1. ASSUME NEW step, StepDone(step) PROVE StepDone(step)'
  BY <1>1 DEF RowsKept, StepDone, Notices!Told, Notices!Same
<1>2. ASSUME NEW steps, NEW n, NEW failed, StepsDone(steps, n, failed) PROVE StepsDone(steps, n, failed)'
  BY <1>1, <1>2 DEF StepsDone
<1>3. ASSUME NEW j, EventKnows(j) PROVE EventKnows(j)'
  BY <1>2, <1>3 DEF EventKnows, RowsKept
<1>4. ASSUME NEW e, HasEnded(e) PROVE HasEnded(e)'
  BY <1>2, <1>4 DEF HasEnded
<1> QED BY <1>1, <1>2, <1>3, <1>4

(* What the requests in flight and the events that ended know stays known  *)
(* when notifications and mails stay, and one request moves.               *)
LEMMA OneMoves ==
  ASSUME NoticesInv, RowsKept, mails \subseteq mails', NEW r \in Req, NEW j \in Event, EventKnows(j)',
         job' = [job EXCEPT ![r] = j], \A e \in ended' : e \in ended \/ HasEnded(e)'
  PROVE  NoticesInv'
<1>1. job \in [Req -> Event] /\ \A e \in ended : HasEnded(e)
  BY DEF NoticesInv
<1>2. \A e \in ended' : HasEnded(e)'
  BY <1>1, StaysDone
<1>3. job' \in [Req -> Event]
  BY <1>1
<1>4. ASSUME NEW q \in Req PROVE EventKnows(job[q])'
  <2>1. CASE q = r
    <3>1. job'[q] = j
      BY <1>1, <2>1
    <3> QED BY <3>1 DEF EventKnows
  <2>2. CASE q # r
    <3>1. PICK k : k = job[q]
      OBVIOUS
    <3>2. EventKnows(k)
      BY <3>1 DEF NoticesInv
    <3>3. EventKnows(k)'
      BY <3>2, StaysDone
    <3>4. job'[q] = k
      BY <1>1, <2>2, <3>1
    <3> QED BY <3>3, <3>4 DEF EventKnows
  <2> QED BY <2>1, <2>2
<1>5. rows' \in Seq(Notices!UserNotification)
  BY DEF RowsKept
<1> QED BY <1>2, <1>3, <1>4, <1>5 DEF NoticesInv

(* A slot that is free knows nothing.                                      *)
LEMMA FreeSlot == Notices!Idle \in Event /\ Notices!Idle.at = "idle" /\ EventKnows(Notices!Idle)'
<1>1. Notices!Idle \in Event /\ Notices!Idle.at = "idle"
  BY DEF Notices!Idle, Event
<1> QED BY <1>1 DEF EventKnows

(* An event goes on with its next step, or ends with this one.             *)
LEMMA Advances ==
  ASSUME NoticesInv, RowsKept, mails \subseteq mails', NEW r \in Req, job[r].at \in {"run", "save"},
         NEW failed \in {job[r].failed, job[r].failed \cup {job[r].n}}, Notices!Advance(r, failed),
         NEW step, step = Notices!Step(r), job[r].n \in failed \/ StepDone(step)'
  PROVE  NoticesInv' /\ job'[r].at \in {"idle", "run"} /\ (\A q \in Req : q # r => job'[q] = job[q])
<1>1. PICK j \in Event : j = job[r]
  BY DEF NoticesInv
<1>2. /\ job \in [Req -> Event] /\ EventKnows(j)
      /\ failed \in {j.failed, j.failed \cup {j.n}} /\ step = j.steps[j.n] /\ j.at \in {"run", "save"}
      /\ j.n \in failed \/ StepDone(step)'
  BY <1>1 DEF NoticesInv, Notices!Step
<1>3. IsEvent(j.op, j.steps) /\ j.n \in 1 .. Len(j.steps) /\ StepsDone(j.steps, j.n - 1, j.failed)
  BY <1>2 DEF EventKnows
<1>4. j.steps \in Seq(GoodStep) /\ Len(j.steps) \in Nat /\ j.n \in Nat /\ j.failed \in SUBSET Nat
  BY DEF Event
<1>5. failed \in SUBSET Nat /\ j.failed \subseteq failed
  BY <1>2, <1>4
<1>6. StepsDone(j.steps, j.n, failed)'
  <2>1. StepsDone(j.steps, j.n - 1, j.failed)'
    BY <1>3, StaysDone
  <2>2. ASSUME NEW i \in 1 .. j.n PROVE i \in failed \/ StepDone(j.steps[i])'
    <3>1. CASE i = j.n
      BY <1>2, <3>1
    <3>2. CASE i # j.n
      <4>1. i \in 1 .. (j.n - 1)
        BY <1>4, <3>2
      <4> QED BY <1>5, <2>1, <4>1 DEF StepsDone
    <3> QED BY <3>1, <3>2
  <2> QED BY <2>2 DEF StepsDone
<1>7. CASE (j.n \in failed /\ ~j.steps[j.n].caught) \/ j.n = Len(j.steps)
  <2>1. PICK e : e = [op |-> j.op, steps |-> j.steps, failed |-> failed]
    OBVIOUS
  <2>2. job' = [job EXCEPT ![r] = Notices!Idle] /\ ended' = ended \cup {e}
    BY <1>1, <1>7, <2>1 DEF Notices!Advance
  <2>3. e.op = j.op /\ e.steps = j.steps /\ e.failed = failed
    BY <2>1
  <2>4. HasEnded(e)'
    BY <1>3, <1>6, <1>7, <2>3 DEF HasEnded
  <2>5. NoticesInv'
    BY <2>2, <2>4, FreeSlot, OneMoves
  <2>6. job'[r] = Notices!Idle /\ \A q \in Req : q # r => job'[q] = job[q]
    BY <1>2, <2>2
  <2> QED BY <2>5, <2>6, FreeSlot
<1>8. CASE ~((j.n \in failed /\ ~j.steps[j.n].caught) \/ j.n = Len(j.steps))
  <2>0. j.n + 1 \in Nat
    BY <1>4
  <2>1. PICK k \in Event : k = [j EXCEPT !.at = "run", !.n = j.n + 1, !.failed = failed]
    BY <1>5, <2>0, Zenon DEF Event
  <2>2. ended' = ended /\ job' = [job EXCEPT ![r] = k]
    <3>1. /\ ended' = ended
          /\ job' = [job EXCEPT ![r].at = "run", ![r].n = @ + 1, ![r].failed = failed]
      BY <1>1, <1>8 DEF Notices!Advance
    <3>2. [job EXCEPT ![r].at = "run", ![r].n = @ + 1, ![r].failed = failed] = [job EXCEPT ![r] = k]
      BY <1>1, <1>2, <2>1 DEF Event
    <3> QED BY <3>1, <3>2
  <2>3. k.at = "run" /\ k.op = j.op /\ k.steps = j.steps /\ k.n = j.n + 1 /\ k.failed = failed
    BY <2>1 DEF Event
  <2>4. k.n \in 1 .. Len(k.steps) /\ k.n - 1 = j.n
    BY <1>3, <1>4, <1>8, <2>3
  <2>5. EventKnows(k)'
    BY <1>3, <1>6, <2>3, <2>4 DEF EventKnows
  <2>6. NoticesInv'
    BY <2>2, <2>5, OneMoves
  <2>7. job'[r] = k /\ \A q \in Req : q # r => job'[q] = job[q]
    BY <1>2, <2>2
  <2> QED BY <2>3, <2>6, <2>7
<1> QED BY <1>7, <1>8

(* One at a time: a step that inserts nothing and leaves no request about  *)
(* to insert keeps what was looked for.                                    *)
LEMMA StillLooked ==
  ASSUME OneRequest, LookedFirst, rows' \in Seq(Notices!UserNotification), DOMAIN rows' = DOMAIN rows,
         \A i \in DOMAIN rows : /\ rows'[i].to = rows[i].to /\ rows'[i].type = rows[i].type
                                /\ rows'[i].key = rows[i].key,
         NEW r \in Req, job'[r].at # "save"
  PROVE  LookedFirst'
<1>1. Notices!NoDuplicates'
  BY DEF LookedFirst, Notices!NoDuplicates
<1>2. \A q \in Req : job'[q].at # "save"
  BY DEF OneRequest
<1> QED BY <1>1, <1>2 DEF LookedFirst

(* An event is raised.                                                     *)
LEMMA RaiseKeeps ==
  ASSUME NoticesInv, NEW r \in Req, NEW op \in Notices!AllHandlers, NEW steps \in Seq(GoodStep),
         IsEvent(op, steps), Notices!Raise(r, op, steps)
  PROVE  NoticesInv' /\ (OneRequest /\ LookedFirst => LookedFirst')
<1>1. rows' = rows /\ mails' = mails /\ ended' = ended /\ rows \in Seq(Notices!UserNotification) /\ steps # <<>>
  BY DEF Notices!Raise, NoticesInv
<1>2. PICK j : j = [Notices!Idle EXCEPT !.at = "run", !.op = op, !.steps = steps, !.n = 1]
  OBVIOUS
<1>3. /\ j \in Event /\ j.at = "run" /\ j.op = op /\ j.steps = steps /\ j.n = 1 /\ j.failed = {}
  BY <1>2 DEF Notices!Idle, Event
<1>4. 1 \in 1 .. Len(steps)
  BY <1>1
<1>5. EventKnows(j)'
  BY <1>3, <1>4 DEF EventKnows, StepsDone
<1>6. job' = [job EXCEPT ![r] = j]
  BY <1>2 DEF Notices!Raise
<1>7. RowsKept
  BY <1>1 DEF RowsKept
<1>8. NoticesInv'
  BY <1>1, <1>3, <1>5, <1>6, <1>7, OneMoves
<1>9. job'[r].at # "save"
  BY <1>3, <1>6 DEF NoticesInv
<1> QED BY <1>1, <1>8, <1>9, StillLooked

(* It looks for an equal notification.                                     *)
LEMMA LookingKeeps ==
  ASSUME NoticesInv, NEW r \in Req, Notices!createUserNotification(r)
  PROVE  NoticesInv' /\ (OneRequest /\ LookedFirst => LookedFirst')
<1>1. rows' = rows /\ mails' = mails /\ rows \in Seq(Notices!UserNotification)
  BY DEF Notices!createUserNotification, NoticesInv
<1>2. RowsKept
  BY <1>1 DEF RowsKept
<1>3. PICK j \in Event : j = job[r]
  BY DEF NoticesInv
<1>7. PICK step : step = Notices!Step(r)
  OBVIOUS
<1>4. j.at = "run" /\ step.do = "tell" /\ EventKnows(j) /\ step = j.steps[j.n]
  BY <1>3, <1>7 DEF Notices!createUserNotification, NoticesInv, Notices!Step
<1>5. CASE Notices!findExistingUserNotification(step)
  <2>1. Notices!Advance(r, job[r].failed)
    BY <1>3, <1>5, <1>7 DEF Notices!createUserNotification
  <2>2. StepDone(step)
    BY <1>4, <1>5 DEF StepDone, Notices!Told, Notices!findExistingUserNotification
  <2>3. StepDone(step)'
    BY <1>1, <1>2, <2>2, StaysDone
  <2>4. NoticesInv' /\ job'[r].at \in {"idle", "run"}
    BY <1>1, <1>2, <1>3, <1>4, <1>7, <2>1, <2>3, Advances
  <2> QED BY <1>1, <2>4, StillLooked
<1>6. CASE ~Notices!findExistingUserNotification(step)
  <2>1. ended' = ended /\ job' = [job EXCEPT ![r].at = "save"]
    BY <1>3, <1>6, <1>7 DEF Notices!createUserNotification
  <2>2. PICK k \in Event : k = [j EXCEPT !.at = "save"]
    BY DEF Event
  <2>3. job' = [job EXCEPT ![r] = k]
    BY <1>3, <2>1, <2>2
  <2>4. k.at = "save" /\ k.op = j.op /\ k.steps = j.steps /\ k.n = j.n /\ k.failed = j.failed
    BY <2>2 DEF Event
  <2>5. EventKnows(j)'
    BY <1>1, <1>2, <1>4, StaysDone
  <2>6. EventKnows(k)'
    BY <1>4, <2>4, <2>5 DEF EventKnows
  <2>7. NoticesInv'
    BY <1>1, <1>2, <2>1, <2>3, <2>6, OneMoves
  <2>8. ASSUME OneRequest, LookedFirst PROVE LookedFirst'
    <3>1. Notices!NoDuplicates'
      BY <1>1, <2>8 DEF LookedFirst, Notices!NoDuplicates
    <3>2. ~Notices!Told(step)
      BY <1>6 DEF Notices!Told, Notices!findExistingUserNotification
    <3>3. job'[r] = k
      BY <2>3 DEF NoticesInv
    <3>4. Notices!Step(r)' = step
      BY <1>4, <2>4, <3>3 DEF Notices!Step
    <3>5. ~Notices!Told(Notices!Step(r))'
      BY <1>1, <3>2, <3>4 DEF Notices!Told
    <3> QED BY <2>8, <3>1, <3>5 DEF LookedFirst, OneRequest
  <2> QED BY <2>7, <2>8
<1> QED BY <1>5, <1>6

(* It inserts the notification, or fails to.                               *)
LEMMA SavingKeeps ==
  ASSUME NoticesInv, NEW r \in Req, Notices!SaveNotification(r)
  PROVE  NoticesInv' /\ (OneRequest /\ LookedFirst => LookedFirst')
<1>1. mails' = mails /\ rows \in Seq(Notices!UserNotification)
  BY DEF Notices!SaveNotification, NoticesInv
<1>2. PICK j \in Event : j = job[r]
  BY DEF NoticesInv
<1>3. PICK step : step = Notices!Step(r)
  OBVIOUS
<1>4. j.at = "save" /\ step.do = "tell" /\ EventKnows(j) /\ step = j.steps[j.n]
  BY <1>2, <1>3 DEF Notices!SaveNotification, NoticesInv, Notices!Step, EventKnows
<1>5. step \in AnyStep /\ step.to \in Notices!User /\ step.type \in Notices!NotificationType
  <2>1. j.steps \in Seq(GoodStep) /\ j.n \in 1 .. Len(j.steps)
    BY <1>4 DEF EventKnows, Event
  <2>2. step \in GoodStep
    BY <1>4, <2>1
  <2> QED BY <1>4, <2>2 DEF GoodStep
<1>6. PICK row : row = [to |-> step.to, type |-> step.type, key |-> step.key, isRead |-> FALSE]
  OBVIOUS
<1>7. row \in Notices!UserNotification /\ Notices!Same(row, step)
  BY <1>5, <1>6 DEF Notices!UserNotification, AnyStep, Notices!Same
<1>8. CASE rows' = Append(rows, row) /\ Notices!Advance(r, job[r].failed)
  <2>1. /\ rows' \in Seq(Notices!UserNotification) /\ Len(rows') = Len(rows) + 1 /\ Len(rows) \in Nat
        /\ DOMAIN rows = 1 .. Len(rows) /\ DOMAIN rows' = 1 .. Len(rows')
        /\ rows'[Len(rows) + 1] = row /\ \A i \in 1 .. Len(rows) : rows'[i] = rows[i]
    BY <1>1, <1>7, <1>8
  <2>2. RowsKept
    BY <2>1 DEF RowsKept
  <2>3. StepDone(step)'
    BY <1>4, <1>7, <2>1 DEF StepDone, Notices!Told
  <2>4. NoticesInv' /\ job'[r].at \in {"idle", "run"}
    BY <1>1, <1>2, <1>3, <1>4, <1>8, <2>2, <2>3, Advances
  <2>5. ASSUME OneRequest, LookedFirst PROVE LookedFirst'
    <3>1. ~Notices!Told(step)
      BY <1>2, <1>3, <1>4, <2>5 DEF LookedFirst
    <3>2. \A i \in 1 .. Len(rows) : ~(rows[i].to = row.to /\ rows[i].type = row.type /\ rows[i].key = row.key)
      BY <1>7, <2>1, <3>1 DEF Notices!Told, Notices!Same
    <3>3. \A i, k \in 1 .. Len(rows) : i # k =>
            ~(rows[i].to = rows[k].to /\ rows[i].type = rows[k].type /\ rows[i].key = rows[k].key)
      BY <2>1, <2>5 DEF LookedFirst, Notices!NoDuplicates
    <3>4. \A i, k \in 1 .. Len(rows') : i # k =>
            ~(rows'[i].to = rows'[k].to /\ rows'[i].type = rows'[k].type /\ rows'[i].key = rows'[k].key)
      BY <2>1, <3>2, <3>3
    <3>5. Notices!NoDuplicates'
      BY <2>1, <3>4 DEF Notices!NoDuplicates
    <3>6. \A q \in Req : job'[q].at # "save"
      BY <2>4, <2>5 DEF OneRequest
    <3> QED BY <3>5, <3>6 DEF LookedFirst
  <2> QED BY <2>4, <2>5
<1>9. CASE rows' = rows /\ Notices!Advance(r, job[r].failed \cup {job[r].n})
  <2>1. RowsKept
    BY <1>1, <1>9 DEF RowsKept
  <2>2. NoticesInv' /\ job'[r].at \in {"idle", "run"}
    BY <1>1, <1>2, <1>3, <1>4, <1>9, <2>1, Advances
  <2> QED BY <1>1, <1>9, <2>2, StillLooked
<1> QED BY <1>3, <1>6, <1>8, <1>9 DEF Notices!SaveNotification

(* It sends a mail, or fails to.                                           *)
LEMMA MailingKeeps ==
  ASSUME NoticesInv, NEW r \in Req, Notices!SendMail(r)
  PROVE  NoticesInv' /\ (OneRequest /\ LookedFirst => LookedFirst')
<1>1. rows' = rows /\ rows \in Seq(Notices!UserNotification) /\ mails \subseteq mails'
  BY DEF Notices!SendMail, NoticesInv
<1>2. RowsKept
  BY <1>1 DEF RowsKept
<1>3. PICK step : step = Notices!Step(r)
  OBVIOUS
<1>4. job[r].at = "run" /\ step.do = "mail"
  BY <1>3 DEF Notices!SendMail
<1>5. CASE mails' = mails \cup {<<step.to, step.type>>} /\ Notices!Advance(r, job[r].failed)
  <2>1. StepDone(step)'
    BY <1>4, <1>5 DEF StepDone
  <2>2. NoticesInv' /\ job'[r].at \in {"idle", "run"}
    BY <1>1, <1>2, <1>3, <1>4, <1>5, <2>1, Advances
  <2> QED BY <1>1, <2>2, StillLooked
<1>6. CASE Notices!Advance(r, job[r].failed \cup {job[r].n})
  <2>1. NoticesInv' /\ job'[r].at \in {"idle", "run"}
    BY <1>1, <1>2, <1>3, <1>4, <1>6, Advances
  <2> QED BY <1>1, <2>1, StillLooked
<1> QED BY <1>3, <1>5, <1>6 DEF Notices!SendMail

(* Some notifications become read.                                         *)
LEMMA ReadingKeeps ==
  ASSUME NoticesInv, NEW r \in Req, mails' = mails, ended' = ended,
         rows' \in Seq(Notices!UserNotification), DOMAIN rows' = DOMAIN rows,
         \A i \in DOMAIN rows : /\ rows'[i].to = rows[i].to /\ rows'[i].type = rows[i].type
                                /\ rows'[i].key = rows[i].key,
         NEW j \in Event, EventKnows(j)', j.at # "save", job' = [job EXCEPT ![r] = j]
  PROVE  NoticesInv' /\ (OneRequest /\ LookedFirst => LookedFirst')
<1>1. RowsKept
  BY DEF RowsKept
<1>2. NoticesInv'
  BY <1>1, OneMoves
<1>3. job'[r].at # "save"
  BY DEF NoticesInv
<1> QED BY <1>2, <1>3, StillLooked

(* A notification that is read is otherwise as it was.                     *)
LEMMA ReadRow ==
  ASSUME NEW row \in Notices!UserNotification, NEW new, new = row \/ new = [row EXCEPT !.isRead = TRUE]
  PROVE  new \in Notices!UserNotification /\ new.to = row.to /\ new.type = row.type /\ new.key = row.key
  BY DEF Notices!UserNotification

(* As many notifications as before are a list of notifications.            *)
LEMMA ReadRows ==
  ASSUME NEW before \in Seq(Notices!UserNotification), NEW after \in [DOMAIN before -> Notices!UserNotification]
  PROVE  after \in Seq(Notices!UserNotification) /\ DOMAIN after = DOMAIN before
<1>1. Len(before) \in Nat /\ DOMAIN before = 1 .. Len(before)
  OBVIOUS
<1> QED BY <1>1

(* A reader's request.                                                     *)
LEMMA ReaderKeeps ==
  ASSUME NoticesInv, NEW r \in Req, Notices!NotificationsResolver(r) \/ Notices!SaveRead(r)
  PROVE  NoticesInv' /\ (OneRequest /\ LookedFirst => LookedFirst')
<1>1. rows \in Seq(Notices!UserNotification) /\ job \in [Req -> Event]
  BY DEF NoticesInv
<1>2. ASSUME NEW user \in Notices!User, NEW i \in DOMAIN rows, Notices!markAsRead(r, user, i)
      PROVE  NoticesInv' /\ (OneRequest /\ LookedFirst => LookedFirst')
  <2>1. rows' = rows /\ mails' = mails /\ ended' = ended
    BY <1>2 DEF Notices!markAsRead
  <2>2. i \in Nat
    BY <1>1
  <2>3. PICK j : j = [Notices!Idle EXCEPT !.at = "markRead", !.op = user, !.row = i]
    OBVIOUS
  <2>4. j \in Event /\ j.at = "markRead" /\ j.row = i
    BY <2>2, <2>3, FreeSlot DEF Event
  <2>5. EventKnows(j)'
    BY <1>2, <2>1, <2>4 DEF EventKnows
  <2>6. job' = [job EXCEPT ![r] = j]
    BY <1>2, <2>3 DEF Notices!markAsRead
  <2>7. /\ rows' \in Seq(Notices!UserNotification) /\ DOMAIN rows' = DOMAIN rows
        /\ \A k \in DOMAIN rows : /\ rows'[k].to = rows[k].to /\ rows'[k].type = rows[k].type
                                  /\ rows'[k].key = rows[k].key
    BY <1>1, <2>1
  <2> QED BY <2>1, <2>4, <2>5, <2>6, <2>7, ReadingKeeps
<1>3. ASSUME NEW user \in Notices!User, Notices!markAllAsRead(r, user)
      PROVE  NoticesInv' /\ (OneRequest /\ LookedFirst => LookedFirst')
  <2>2. PICK after : after = rows'
    OBVIOUS
  <2>3. /\ after = [i \in DOMAIN rows |-> after[i]]
        /\ \A i \in DOMAIN rows : after[i] = rows[i] \/ after[i] = [rows[i] EXCEPT !.isRead = TRUE]
    BY <1>3, <2>2 DEF Notices!markAllAsRead
  <2>4. /\ rows' \in Seq(Notices!UserNotification) /\ DOMAIN rows' = DOMAIN rows
        /\ \A k \in DOMAIN rows : /\ rows'[k].to = rows[k].to /\ rows'[k].type = rows[k].type
                                  /\ rows'[k].key = rows[k].key
    <3>1. /\ after \in Seq(Notices!UserNotification) /\ DOMAIN after = DOMAIN rows
          /\ \A k \in DOMAIN rows : /\ after[k].to = rows[k].to /\ after[k].type = rows[k].type
                                    /\ after[k].key = rows[k].key
      <4>1. \A k \in DOMAIN rows : rows[k] \in Notices!UserNotification
        BY <1>1
      <4>2. \A k \in DOMAIN rows : /\ after[k] \in Notices!UserNotification
                                   /\ after[k].to = rows[k].to /\ after[k].type = rows[k].type
                                   /\ after[k].key = rows[k].key
        BY <2>3, <4>1, ReadRow
      <4>3. after \in [DOMAIN rows -> Notices!UserNotification]
        BY <2>3, <4>2
      <4> QED BY <1>1, <4>2, <4>3, ReadRows
    <3> QED BY <2>2, <3>1
  <2>5. mails' = mails /\ ended' = ended /\ job' = job /\ job[r].at = "idle"
    BY <1>3 DEF Notices!markAllAsRead
  <2>6. PICK j \in Event : j = job[r]
    BY <1>1
  <2>7. job' = [job EXCEPT ![r] = j] /\ j.at # "save"
    BY <1>1, <2>5, <2>6
  <2>8. EventKnows(j)'
    BY <2>5, <2>6 DEF EventKnows
  <2> QED BY <2>4, <2>5, <2>7, <2>8, ReadingKeeps
<1>4. ASSUME Notices!SaveRead(r) PROVE NoticesInv' /\ (OneRequest /\ LookedFirst => LookedFirst')
  <2>1. PICK j \in Event : j = job[r]
    BY <1>1
  <2>2. j.row \in DOMAIN rows
    BY <1>4, <2>1 DEF Notices!SaveRead, NoticesInv, EventKnows
  <2>4. PICK after : after = rows'
    OBVIOUS
  <2>5. /\ after = [i \in DOMAIN rows |-> after[i]]
        /\ \A i \in DOMAIN rows : after[i] = rows[i] \/ after[i] = [rows[i] EXCEPT !.isRead = TRUE]
    BY <1>4, <2>1, <2>2, <2>4 DEF Notices!SaveRead
  <2>6. /\ rows' \in Seq(Notices!UserNotification) /\ DOMAIN rows' = DOMAIN rows
        /\ \A k \in DOMAIN rows : /\ rows'[k].to = rows[k].to /\ rows'[k].type = rows[k].type
                                  /\ rows'[k].key = rows[k].key
    <3>1. /\ after \in Seq(Notices!UserNotification) /\ DOMAIN after = DOMAIN rows
          /\ \A k \in DOMAIN rows : /\ after[k].to = rows[k].to /\ after[k].type = rows[k].type
                                    /\ after[k].key = rows[k].key
      <4>1. \A k \in DOMAIN rows : rows[k] \in Notices!UserNotification
        BY <1>1
      <4>2. \A k \in DOMAIN rows : /\ after[k] \in Notices!UserNotification
                                   /\ after[k].to = rows[k].to /\ after[k].type = rows[k].type
                                   /\ after[k].key = rows[k].key
        BY <2>5, <4>1, ReadRow
      <4>3. after \in [DOMAIN rows -> Notices!UserNotification]
        BY <2>5, <4>2
      <4> QED BY <1>1, <4>2, <4>3, ReadRows
    <3> QED BY <2>4, <3>1
  <2>7. mails' = mails /\ ended' = ended /\ job' = [job EXCEPT ![r] = Notices!Idle]
    BY <1>4 DEF Notices!SaveRead
  <2> QED BY <2>6, <2>7, FreeSlot, ReadingKeeps
<1> QED BY <1>2, <1>3, <1>4 DEF Notices!NotificationsResolver

(* Every step keeps what events know, and one at a time what was looked    *)
(* for.                                                                    *)
LEMMA NoticesNext ==
  ASSUME Notices!NotificationAssumption, NoticesInv, [Notices!Next]_(Notices!vars)
  PROVE  NoticesInv' /\ (OneRequest /\ LookedFirst => LookedFirst')
<1>1. CASE Notices!Next
  <2>1. PICK r \in Req : \/ Notices!OrderEvents(r) \/ Notices!StoreEvents(r)
                         \/ Notices!NotificationsResolver(r) \/ Notices!SaveRead(r)
                         \/ Notices!createUserNotification(r)
                         \/ Notices!SaveNotification(r)
                         \/ Notices!SendMail(r)
    BY <1>1 DEF Notices!Next, Notices!Continue
  <2>2. CASE Notices!OrderEvents(r) \/ Notices!StoreEvents(r)
    <3>1. PICK op \in Notices!AllHandlers, steps \in Seq(GoodStep) : IsEvent(op, steps) /\ Notices!Raise(r, op, steps)
      BY <2>2, EventsAre
    <3> QED BY <3>1, RaiseKeeps
  <2>3. CASE Notices!NotificationsResolver(r) \/ Notices!SaveRead(r)
    BY <2>3, ReaderKeeps
  <2> QED BY <2>1, <2>2, <2>3, LookingKeeps, SavingKeeps, MailingKeeps
<1>2. CASE UNCHANGED Notices!vars
  <2>1. rows' = rows /\ mails' = mails /\ job' = job /\ ended' = ended
    BY <1>2 DEF Notices!vars
  <2>2. NoticesInv'
    BY <2>1 DEF NoticesInv, EventKnows, HasEnded, StepsDone, StepDone, Notices!Told
  <2>3. LookedFirst => LookedFirst'
    BY <2>1 DEF LookedFirst, Notices!NoDuplicates, Notices!Told, Notices!Step
  <2> QED BY <2>2, <2>3
<1> QED BY <1>1, <1>2

(* What events know is what the readers were promised: a hold tells its    *)
(* vendor whatever failed before, a payment mails, and an event that       *)
(* nothing failed in told everyone.                                        *)
LEMMA NoticesGive ==
  ASSUME NoticesInv
  PROVE  Notices!HoldReachesVendor /\ Notices!PaidIsMailed /\ Notices!EveryoneIsTold
<1>1. ASSUME NEW e \in ended, NEW i \in DOMAIN e.steps, e.op \in {"hold", "orderPaid"} \/ e.failed = {}
      PROVE  i \in e.failed \/ StepDone(e.steps[i])
  <2>1. HasEnded(e) /\ e.steps \in Seq(GoodStep) /\ i \in 1 .. Len(e.steps)
    BY <1>1 DEF NoticesInv, HasEnded, IsEvent
  <2>2. PICK n \in 1 .. Len(e.steps) : /\ StepsDone(e.steps, n, e.failed)
                                       /\ n = Len(e.steps) \/ (n \in e.failed /\ ~e.steps[n].caught)
    BY <2>1 DEF HasEnded
  <2>3. n = Len(e.steps)
    <3>1. CASE e.op = "hold"
      <4>1. e.steps \in Seq(HoldStep)
        BY <2>1, <3>1 DEF HasEnded, IsEvent
      <4>2. e.steps[n].caught
        BY <4>1 DEF HoldStep
      <4> QED BY <2>2, <4>2
    <3>2. CASE e.op = "orderPaid"
      <4>1. n < Len(e.steps) => e.steps[n].caught
        BY <2>1, <3>2 DEF HasEnded, IsEvent
      <4>2. Len(e.steps) \in Nat
        BY <2>1
      <4> QED BY <2>2, <4>1, <4>2
    <3> QED BY <1>1, <2>2, <3>1, <3>2
  <2> QED BY <2>1, <2>2, <2>3 DEF StepsDone
<1>2. Notices!HoldReachesVendor
  <2>1. ASSUME NEW e \in ended, e.op = "hold", NEW i \in DOMAIN e.steps,
               e.steps[i].type \in {"vendor_order_items_on_hold", "vendor_order_items_hold_resumed"}
        PROVE  i \in e.failed \/ Notices!Told(e.steps[i])
    <3>1. e.steps \in Seq(HoldStep)
      BY <2>1 DEF NoticesInv, HasEnded, IsEvent
    <3>2. e.steps[i].do = "tell"
      BY <2>1, <3>1 DEF HoldStep
    <3> QED BY <1>1, <2>1, <3>2 DEF StepDone
  <2> QED BY <2>1 DEF Notices!HoldReachesVendor, Notices!VendorHold
<1>3. Notices!PaidIsMailed
  <2>1. ASSUME NEW e \in ended, e.op = "orderPaid", NEW i \in DOMAIN e.steps, e.steps[i].do = "mail"
        PROVE  i \in e.failed \/ <<e.steps[i].to, "paid">> \in mails
    <3>1. IsEvent("orderPaid", e.steps) /\ e.steps \in Seq(GoodStep)
      BY <2>1 DEF NoticesInv, HasEnded, IsEvent
    <3>2. e.steps[i].type = "paid"
      BY <2>1, <3>1 DEF IsEvent
    <3> QED BY <1>1, <2>1, <3>2 DEF StepDone
  <2> QED BY <2>1 DEF Notices!PaidIsMailed
<1>4. Notices!EveryoneIsTold
  <2>1. ASSUME NEW e \in ended, e.failed = {}, NEW i \in DOMAIN e.steps, e.steps[i].do = "tell"
        PROVE  Notices!Told(e.steps[i])
    BY <1>1, <2>1 DEF StepDone
  <2> QED BY <2>1 DEF Notices!EveryoneIsTold
<1> QED BY <1>2, <1>3, <1>4

(* However events, failures of saves and of mails, and readers overlap: a  *)
(* hold's vendor is told even if telling or mailing the customer failed    *)
(* (notifyHoldEvent), the mail about a payment is sent even if the         *)
(* notification was not saved (notifyOrderPaid), and an event in which     *)
(* nothing failed told everyone it is for.                                 *)
THEOREM EventsArrive ==
  ASSUME Notices!NotificationAssumption
  PROVE  Notices!Spec => [](Notices!HoldReachesVendor /\ Notices!PaidIsMailed /\ Notices!EveryoneIsTold)
<1>1. Notices!Init => NoticesInv BY NoticesInit
<1>2. NoticesInv /\ [Notices!Next]_(Notices!vars) => NoticesInv' BY NoticesNext
<1>3. NoticesInv => Notices!HoldReachesVendor /\ Notices!PaidIsMailed /\ Notices!EveryoneIsTold BY NoticesGive
<1> QED BY <1>1, <1>2, <1>3, PTL DEF Notices!Spec

(* One at a time no two notifications tell one user the same, however      *)
(* often an event is raised again: createUserNotification looks before it  *)
(* inserts.                                                                *)
THEOREM NobodyIsToldTwice ==
  ASSUME Notices!NotificationAssumption, OneRequest
  PROVE  Notices!Spec => []Notices!NoDuplicates
<1>1. Notices!Init => NoticesInv /\ LookedFirst BY NoticesInit
<1>2. NoticesInv /\ LookedFirst /\ [Notices!Next]_(Notices!vars) => NoticesInv' /\ LookedFirst' BY NoticesNext
<1>3. LookedFirst => Notices!NoDuplicates BY DEF LookedFirst
<1> QED BY <1>1, <1>2, <1>3, PTL DEF Notices!Spec
====
