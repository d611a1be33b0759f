------------------------------- MODULE EmailCms --------------------------------
(***************************************************************************)
(* E-mail templates kept in the database: containers (the page around a    *)
(* mail, one of them the default), one content row per kind of mail, the   *)
(* cache of one server process, and the rendering of the mails that the    *)
(* other services send.  EmailCmsService, EmailTemplateCacheService,       *)
(* EmailTemplateRendererService and EmailDeliveryService.                  *)
(*                                                                         *)
(* A text is the set of placeholders in it.                                *)
(***************************************************************************)
EXTENDS Naturals, FiniteSets

CONSTANTS
    Req,         \* slots: handlers that may be in flight at once
    Handlers,    \* the handlers that run in this instance
    Container,   \* ids of containers
    Key,         \* kinds of mail
    Seeded,      \* the kinds that have a content row
    Required,    \* placeholders of every mail: given by each sender
    Optional,    \* placeholders a sender may leave out
    Unknown      \* placeholders nobody knows

CmsResolver == {"createContainer", "updateContainer", "setDefault", "updateContent"}
AllHandlers == CmsResolver \cup {"send", "crash"}

EmailAssumption ==
    /\ Handlers \subseteq AllHandlers
    /\ Seeded \subseteq Key
    /\ Container # {} /\ Key # {}

getPlaceholdersForKey == Required \cup Optional
EMAIL_SYSTEM_PLACEHOLDERS == {"logoUrl"}
Text == SUBSET (Required \cup Optional \cup Unknown)
Shell == SUBSET (EMAIL_SYSTEM_PLACEHOLDERS \cup Unknown)
First == CHOOSE c \in Container : TRUE

VARIABLES
    containers, \* email_containers
    content,    \* email_content_templates
    cache,      \* the cache of the process
    job,        \* handlers in flight
    sent        \* the last mail

vars == <<containers, content, cache, job, sent>>

EmailContainer == [exists : BOOLEAN, isDefault : BOOLEAN, shell : Shell]
EmailContent == [exists : BOOLEAN, enabled : BOOLEAN, container : Container, body : Text]
(* cached is FALSE for no entry.                                           *)
Entry == [cached : BOOLEAN, content : EmailContent, shell : Shell]
(* known: the row was enabled, or about to change, when the mail was       *)
(* asked for; literal: placeholders that were not replaced.                *)
Mail == [known : BOOLEAN, fallback : BOOLEAN, literal : Text \cup Shell]

NoContainer == [exists |-> FALSE, isDefault |-> FALSE, shell |-> {}]
SeedContent(k) == [exists |-> k \in Seeded, enabled |-> TRUE, container |-> First, body |-> Required]
NoEntry == [cached |-> FALSE, content |-> SeedContent(CHOOSE k \in Key : TRUE), shell |-> {}]
NoMail == [known |-> TRUE, fallback |-> FALSE, literal |-> {}]
AnyKey == CHOOSE k \in Key : TRUE
Idle == [at |-> "idle", op |-> "none", c |-> First, row |-> NoContainer, k |-> AnyKey,
         content |-> SeedContent(AnyKey), known |-> TRUE]
Job == [at : {"idle", "clear", "save", "invalidateAll", "saveContent", "invalidateKey", "readContainer"},
        op : AllHandlers \cup {"none"}, c : Container, row : EmailContainer, k : Key, content : EmailContent,
        known : BOOLEAN]

Init ==
    /\ containers = [c \in Container |->
          IF c = First THEN [exists |-> TRUE, isDefault |-> TRUE, shell |-> EMAIL_SYSTEM_PLACEHOLDERS] ELSE NoContainer]
    /\ content = [k \in Key |-> SeedContent(k)]
    /\ cache = [k \in Key |-> NoEntry]
    /\ job = [r \in Req |-> Idle]
    /\ sent = NoMail

Start(r, op, at, what) ==
    /\ op \in Handlers
    /\ job[r].at = "idle"
    /\ job' = [job EXCEPT ![r] = [what EXCEPT !.at = at, !.op = op]]
At(r, at) == job[r].at = at
Goto(r, at) == job' = [job EXCEPT ![r].at = at]
Return(r) == job' = [job EXCEPT ![r] = Idle]
Changing(k) == \E r \in Req : job[r].at \in {"saveContent", "invalidateKey"} /\ job[r].k = k

-----------------------------------------------------------------------------
(* Validation on save                                                      *)

validateContainerHtmlShell(shell) == shell \subseteq EMAIL_SYSTEM_PLACEHOLDERS

validateEmailContentTemplate(body) == body \subseteq getPlaceholdersForKey

-----------------------------------------------------------------------------
(* Containers                                                              *)

createContainer(r, c, shell, isDefault) ==
    /\ ~containers[c].exists
    /\ \A q \in Req : job[q].at # "idle" => job[q].c # c
    /\ validateContainerHtmlShell(shell)
    /\ Start(r, "createContainer", IF isDefault THEN "clear" ELSE "save",
          [Idle EXCEPT !.c = c, !.row = [exists |-> TRUE, isDefault |-> isDefault, shell |-> shell]])
    /\ UNCHANGED <<containers, content, cache, sent>>

(* Without isDefault in the input it stays as it was loaded; the default   *)
(* container cannot be cleared.                                            *)
updateContainer(r, c, shell, isDefault) ==
    LET old == containers[c]
    IN
    /\ old.exists
    /\ validateContainerHtmlShell(shell)
    /\ old.isDefault => isDefault
    /\ Start(r, "updateContainer", IF isDefault /\ ~old.isDefault THEN "clear" ELSE "save",
          [Idle EXCEPT !.c = c, !.row = [exists |-> TRUE, isDefault |-> isDefault, shell |-> shell]])
    /\ UNCHANGED <<containers, content, cache, sent>>

setDefaultContainer(r, c) ==
    /\ containers[c].exists
    /\ Start(r, "setDefault", "clear", [Idle EXCEPT !.c = c, !.row = [containers[c] EXCEPT !.isDefault = TRUE]])
    /\ UNCHANGED <<containers, content, cache, sent>>

ClearDefaults(r) ==
    /\ At(r, "clear")
    /\ containers' = [c \in Container |-> [containers[c] EXCEPT !.isDefault = FALSE]]
    /\ Goto(r, "save")
    /\ UNCHANGED <<content, cache, sent>>

SaveContainer(r) ==
    /\ At(r, "save")
    /\ containers' = [containers EXCEPT ![job[r].c] = job[r].row]
    /\ Goto(r, "invalidateAll")
    /\ UNCHANGED <<content, cache, sent>>

(* Mutant: the entries stay.                                               *)
InvalidateNone(r) ==
    /\ At(r, "invalidateAll")
    /\ Return(r)
    /\ UNCHANGED <<containers, content, cache, sent>>

invalidateAll(r) ==
    /\ At(r, "invalidateAll")
    /\ cache' = [k \in Key |-> NoEntry]
    /\ Return(r)
    /\ UNCHANGED <<containers, content, sent>>

-----------------------------------------------------------------------------
(* Content rows                                                            *)

updateContentTemplate(r, k, c, body, enabled) ==
    /\ content[k].exists
    /\ containers[c].exists
    /\ validateEmailContentTemplate(body)
    /\ Start(r, "updateContent", "saveContent", [Idle EXCEPT !.k = k,
          !.content = [exists |-> TRUE, enabled |-> enabled, container |-> c, body |-> body]])
    /\ UNCHANGED <<containers, content, cache, sent>>

SaveContent(r) ==
    /\ At(r, "saveContent")
    /\ content' = [content EXCEPT ![job[r].k] = job[r].content]
    /\ Goto(r, "invalidateKey")
    /\ UNCHANGED <<containers, cache, sent>>

invalidateKey(r) ==
    /\ At(r, "invalidateKey")
    /\ cache' = [cache EXCEPT ![job[r].k] = NoEntry]
    /\ Return(r)
    /\ UNCHANGED <<containers, content, sent>>

(* The time to live of an entry is over.                                   *)
Expire(k) ==
    /\ cache[k].cached
    /\ cache' = [cache EXCEPT ![k] = NoEntry]
    /\ UNCHANGED <<containers, content, job, sent>>

-----------------------------------------------------------------------------
(* Rendering                                                               *)

(* Placeholders of the registry that the sender left out become empty.     *)
merge(row, shell, given) ==
    [fallback |-> FALSE,
     literal |-> (row.body \ (given \cup getPlaceholdersForKey)) \cup (shell \ EMAIL_SYSTEM_PLACEHOLDERS)]

renderFallback == [fallback |-> TRUE, literal |-> {}]

renderForSend(entry, given) ==
    IF entry.content.exists /\ entry.content.enabled
    THEN merge(entry.content, entry.shell, given)
    ELSE renderFallback

Deliver(mail, known) == sent' = [known |-> known, fallback |-> mail.fallback, literal |-> mail.literal]

Known(k) == content[k].enabled \/ Changing(k)

(* The entry of the cache, or the row read now; its container is read      *)
(* next.                                                                   *)
loadEntry(r, k, given) ==
    IF cache[k].cached
    THEN /\ "send" \in Handlers
         /\ At(r, "idle")
         /\ Deliver(renderForSend(cache[k], given), Known(k))
         /\ UNCHANGED <<containers, content, cache, job>>
    ELSE /\ Start(r, "send", "readContainer", [Idle EXCEPT !.k = k, !.content = content[k], !.known = Known(k)])
         /\ UNCHANGED <<containers, content, cache, sent>>

FillCache(r, given) ==
    LET k == job[r].k
        row == job[r].content
        entry == [cached |-> TRUE, content |-> row, shell |-> IF row.exists THEN containers[row.container].shell ELSE {}]
    IN
    /\ At(r, "readContainer")
    /\ cache' = [cache EXCEPT ![k] = entry]
    /\ Deliver(renderForSend(entry, given), job[r].known)
    /\ Return(r)
    /\ UNCHANGED <<containers, content>>

(* The process restarts.                                                   *)
Crash ==
    /\ "crash" \in Handlers
    /\ \E r \in Req : job[r] # Idle
    /\ job' = [r \in Req |-> Idle]
    /\ cache' = [k \in Key |-> NoEntry]
    /\ UNCHANGED <<containers, content, sent>>

-----------------------------------------------------------------------------
Given == {Required \cup o : o \in SUBSET Optional}

Administer(r) ==
    \/ \E c \in Container, shell \in Shell, isDefault \in BOOLEAN :
          createContainer(r, c, shell, isDefault) \/ updateContainer(r, c, shell, isDefault)
    \/ \E c \in Container : setDefaultContainer(r, c)
    \/ \E k \in Key, c \in Container, body \in Text, enabled \in BOOLEAN : updateContentTemplate(r, k, c, body, enabled)

Write(r) ==
    \/ ClearDefaults(r)
    \/ SaveContainer(r)
    \/ invalidateAll(r)
    \/ SaveContent(r)
    \/ invalidateKey(r)

Next ==
    \/ \E r \in Req :
          \/ Administer(r)
          \/ Write(r)
          \/ \E k \in Key, given \in Given : loadEntry(r, k, given)
          \/ \E given \in Given : FillCache(r, given)
    \/ \E k \in Key : Expire(k)
    \/ Crash

Spec == Init /\ [][Next]_vars

-----------------------------------------------------------------------------
TypeOK ==
    /\ containers \in [Container -> EmailContainer]
    /\ content \in [Key -> EmailContent]
    /\ cache \in [Key -> Entry]
    /\ job \in [Req -> Job]
    /\ sent \in Mail
    /\ \A k \in Key : content[k].exists => containers[content[k].container].exists

(* There is one default container, except while a handler moves the mark:  *)
(* updateContainer does not let it be cleared.                             *)
OneDefault ==
    (\A r \in Req : job[r].at # "save") => Cardinality({c \in Container : containers[c].isDefault}) = 1

(* An entry of the cache is what the database holds, once the handlers     *)
(* have invalidated it.                                                    *)
CacheIsFresh ==
    (\A r \in Req : job[r] = Idle) =>
        \A k \in Key : cache[k].cached =>
            /\ cache[k].content = content[k]
            /\ content[k].exists => cache[k].shell = containers[content[k].container].shell

(* A mail that is asked for while its row is disabled is written by the    *)
(* built-in template.                                                      *)
DisabledForcesFallback == sent.known \/ sent.fallback

(* No mail shows a placeholder.                                            *)
NoLiteralPlaceholder == sent.literal = {}

=============================================================================
