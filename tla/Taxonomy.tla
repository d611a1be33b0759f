------------------------------- MODULE Taxonomy --------------------------------
(***************************************************************************)
(* Categories, tags, pet types and brands: proposed by vendors, created,   *)
(* renamed, decided on and deleted by administrators, and assigned to      *)
(* products.  TaxonomyService and the taxonomy part of                     *)
(* ProductsService.update.                                                 *)
(*                                                                         *)
(* A term's slug is <<name, n>>: the slug of the name, with the suffix n   *)
(* unless n is 0.  Names that differ only in case are one name.  Products  *)
(* are the ones that are not deleted.  A product's tags are also kept as a *)
(* list of names on the product itself: labels.                            *)
(***************************************************************************)
EXTENDS Naturals, FiniteSets

CONSTANTS
    Req,        \* slots: handlers that may be in flight at once
    Handlers,   \* the handlers that run in this instance
    Kinds,      \* kinds of terms there are in this instance
    Name,
    Product,
    MaxTerms    \* bound: terms ever created

AllKinds == {"category", "tag", "petType", "brand"}
VendorHandlers == {"create", "assign"}
AdminHandlers == {"create", "update", "setImage", "approve", "reject", "delete"}

TaxonomyAssumption ==
    /\ Handlers \subseteq VendorHandlers \cup AdminHandlers
    /\ Kinds \subseteq AllKinds
    /\ MaxTerms \in Nat

VARIABLES
    terms,      \* rows of the four tables
    next,       \* the next id
    products,   \* what each product refers to, and its labels
    job,        \* handlers in flight
    answer      \* how the last write was answered

vars == <<terms, next, products, job, answer>>

Term == 1 .. MaxTerms
None == 0
Slug == Name \X (0 .. MaxTerms)
NoName == CHOOSE n \in Name : TRUE
Status == {"pending", "approved", "rejected"}

(* exists is FALSE before the insert and after the delete; by is the role  *)
(* of the creator.                                                         *)
Category == [exists : BOOLEAN, kind : AllKinds, name : Name, slug : Slug, status : Status,
             image : BOOLEAN, by : {"vendor", "admin"}]
ProductRow == [terms : SUBSET Term, labels : SUBSET Name]

NoTerm == [exists |-> FALSE, kind |-> "tag", name |-> NoName, slug |-> <<NoName, 0>>,
           status |-> "rejected", image |-> FALSE, by |-> "vendor"]
NoProduct == [terms |-> {}, labels |-> {}]
Idle == [at |-> "idle", op |-> "none", t |-> None, row |-> NoTerm, to |-> None, bound |-> {},
         rows |-> [p \in Product |-> NoProduct]]
Job == [at : {"idle", "insert", "status", "save", "delete", "product"},
        op : VendorHandlers \cup AdminHandlers \cup {"none"}, t : Term \cup {None}, row : Category,
        to : Term \cup {None}, bound : SUBSET Product, rows : [Product -> ProductRow]]

Init ==
    /\ terms = [t \in Term |-> NoTerm]
    /\ next = 1
    /\ products = [p \in Product |-> NoProduct]
    /\ job = [r \in Req |-> Idle]
    /\ answer = "ok"

Start(r, op, at, what) ==
    /\ op \in Handlers
    /\ job[r].at = "idle"
    /\ job' = [job EXCEPT ![r] = [what EXCEPT !.at = at, !.op = op]]
At(r, at) == job[r].at = at
Return(r) == job' = [job EXCEPT ![r] = Idle]

Of(k) == {t \in Term : terms[t].exists /\ terms[t].kind = k}
OfProduct(p, k) == products[p].terms \cap Of(k)
Approved(k) == {t \in Of(k) : terms[t].status = "approved"}

-----------------------------------------------------------------------------
(* Names and slugs                                                         *)

(* assertUniqueName, and the same look-up of the update handlers           *)
assertUniqueName(k, t, n) == \A u \in Of(k) \ {t} : terms[u].name = n => terms[u].status = "rejected"
assertUniqueSlug(k, t, s) == \A u \in Of(k) \ {t} : terms[u].slug # s

ensureUniqueSlug(k, t, n) ==
    LET free == {i \in 0 .. MaxTerms : assertUniqueSlug(k, t, <<n, i>>)}
    IN <<n, CHOOSE i \in free : \A j \in free : i <= j>>

(* The unique indexes: the slug, and the name among rows not rejected.     *)
Clash(t, row) ==
    \E u \in Of(row.kind) \ {t} :
        \/ terms[u].slug = row.slug
        \/ terms[u].name = row.name /\ "rejected" \notin {terms[u].status, row.status}

(* create and update turn the database's error into a conflict; the        *)
(* handlers that save an image or a decision do not.                       *)
isUniqueViolation(op) == IF op \in {"create", "update"} THEN "conflict" ELSE "raw"

-----------------------------------------------------------------------------
(* Creating, renaming, images                                              *)

resolveApprovalStatus(role) == IF role = "admin" THEN "approved" ELSE "pending"

Create(r, k, n, role, image) ==
    /\ k \in Kinds
    /\ next <= MaxTerms
    /\ assertUniqueName(k, None, n)
    /\ Start(r, "create", "insert", [Idle EXCEPT !.t = next, !.row =
          [exists |-> TRUE, kind |-> k, name |-> n, slug |-> ensureUniqueSlug(k, None, n),
           status |-> resolveApprovalStatus(role), image |-> image, by |-> role]])
    /\ next' = next + 1
    /\ UNCHANGED <<terms, products, answer>>

createCategory(r, n, role, image) == Create(r, "category", n, role, image)
createTag(r, n, role) == Create(r, "tag", n, role, FALSE)
createPetType(r, n, role, image) == Create(r, "petType", n, role, image)
createBrand(r, n, role) == Create(r, "brand", n, role, FALSE)

(* The row is inserted, or saved whole as it was loaded; the save of a row *)
(* that was deleted since inserts it again.                                *)
SaveTerm(r) ==
    LET t == job[r].t
        row == job[r].row
    IN
    /\ job[r].at \in {"insert", "save"}
    /\ IF Clash(t, row)
         THEN answer' = isUniqueViolation(job[r].op) /\ UNCHANGED terms
         ELSE answer' = "ok" /\ terms' = [terms EXCEPT ![t] = row]
    /\ Return(r)
    /\ UNCHANGED <<next, products>>

(* A slug given by the administrator is taken as it is; a new name without *)
(* one gets the next free slug of the name.                                *)
Rename(r, t, n, given, s) ==
    LET row == terms[t]
        slug == IF given THEN s ELSE IF n # row.name THEN ensureUniqueSlug(row.kind, t, n) ELSE row.slug
    IN
    /\ <<n, slug>> # <<row.name, row.slug>>
    /\ n # row.name => assertUniqueName(row.kind, t, n)
    /\ slug # row.slug => assertUniqueSlug(row.kind, t, slug)
    /\ Start(r, "update", "save", [Idle EXCEPT !.t = t, !.row = [row EXCEPT !.name = n, !.slug = slug]])
    /\ UNCHANGED <<terms, next, products, answer>>

updateCategory(r, t, n, given, s) == t \in Of("category") /\ Rename(r, t, n, given, s)
updateTag(r, t, n, given, s) == t \in Of("tag") /\ Rename(r, t, n, given, s)
updatePetType(r, t, n, given, s) == t \in Of("petType") /\ Rename(r, t, n, given, s)
updateBrand(r, t, n, given, s) == t \in Of("brand") /\ Rename(r, t, n, given, s)

SetImage(r, t) ==
    /\ Start(r, "setImage", "save", [Idle EXCEPT !.t = t, !.row = [terms[t] EXCEPT !.image = TRUE]])
    /\ UNCHANGED <<terms, next, products, answer>>

setCategoryImage(r, t) == t \in Of("category") /\ SetImage(r, t)
setPetTypeImage(r, t) == t \in Of("petType") /\ SetImage(r, t)

-----------------------------------------------------------------------------
(* Decisions                                                               *)

Decide(r, t, op, status) ==
    /\ Start(r, op, "status", [Idle EXCEPT !.t = t, !.row = [terms[t] EXCEPT !.status = status]])
    /\ UNCHANGED <<terms, next, products, answer>>

(* The image is looked at on a first read, the row is read again to be     *)
(* saved.                                                                  *)
approveCategory(r, t) == t \in Of("category") /\ terms[t].image /\ Decide(r, t, "approve", "approved")

approveTag(r, t) == t \in Of("tag") /\ Decide(r, t, "approve", "approved")
approvePetType(r, t) == t \in Of("petType") /\ Decide(r, t, "approve", "approved")
approveBrand(r, t) == t \in Of("brand") /\ Decide(r, t, "approve", "approved")
Reject(r, t) == terms[t].exists /\ Decide(r, t, "reject", "rejected")

setCategoryStatus(r) ==
    LET t == job[r].t
    IN
    /\ At(r, "status")
    /\ IF terms[t].exists
         THEN job' = [job EXCEPT ![r].at = "save", ![r].row = [terms[t] EXCEPT !.status = job[r].row.status]]
         ELSE Return(r)
    /\ UNCHANGED <<terms, next, products, answer>>

-----------------------------------------------------------------------------
(* Deleting: what is bound is read first, then one transaction             *)

Bound(t) == {p \in Product : t \in products[p].terms}

Delete(r, t, to) ==
    /\ Start(r, "delete", "delete",
          [Idle EXCEPT !.t = t, !.row = terms[t], !.to = to, !.bound = Bound(t), !.rows = products])
    /\ UNCHANGED <<terms, next, products, answer>>

(* Mutant: the replacement is only asked for.                              *)
ReplacementIfGiven(t, to) == to = None \/ to \in Approved("category") \ {t}

Replacement(t, to) == IF Bound(t) = {} THEN to = None ELSE to \in Approved("category") \ {t}

deleteCategory(r, t, to) == t \in Of("category") /\ Replacement(t, to) /\ Delete(r, t, to)
deleteTag(r, t) == t \in Of("tag") /\ Delete(r, t, None)
deletePetType(r, t) == t \in Of("petType") /\ Delete(r, t, None)
deleteBrand(r, t) == t \in Of("brand") /\ Delete(r, t, None)

Without(p, t) == [products[p] EXCEPT !.terms = @ \ {t}]

(* Every product of the category gets the replacement, if one was asked    *)
(* for; the foreign key empties what still refers to the category.         *)
Reassigned(r) ==
    [p \in Product |->
        IF p \in Bound(job[r].t) /\ job[r].to # None
        THEN [Without(p, job[r].t) EXCEPT !.terms = @ \cup {job[r].to}]
        ELSE Without(p, job[r].t)]

(* Mutant: the label stays on the product.                                 *)
KeepLabels(r) == [p \in Product |-> Without(p, job[r].t)]

(* The products that had the tag are saved as they were loaded, without    *)
(* its name; their tags themselves were not loaded.                        *)
Untagged(r) ==
    [p \in Product |->
        IF p \in job[r].bound
        THEN LET old == job[r].rows[p]
             IN [terms |-> {u \in old.terms : terms[u].kind # "tag"}
                               \cup {u \in products[p].terms \ {job[r].t} : terms[u].kind = "tag"},
                 labels |-> old.labels \ {job[r].row.name}]
        ELSE Without(p, job[r].t)]

AfterDelete(r) ==
    CASE job[r].row.kind = "category" -> Reassigned(r)
      [] job[r].row.kind = "tag" -> Untagged(r)
      [] OTHER -> [p \in Product |-> Without(p, job[r].t)]

(* A reference to a row that is gone aborts the transaction.               *)
DeleteTerm(r) ==
    LET t == job[r].t
    IN
    /\ At(r, "delete")
    /\ IF \A p \in Product, u \in Term : u \in AfterDelete(r)[p].terms => terms[u].exists
         THEN /\ products' = AfterDelete(r)
              /\ terms' = [terms EXCEPT ![t].exists = FALSE]
              /\ answer' = "ok"
         ELSE answer' = "raw" /\ UNCHANGED <<terms, products>>
    /\ Return(r)
    /\ UNCHANGED next

-----------------------------------------------------------------------------
(* Assigning to a product                                                  *)

(* getApprovedCategory, getApprovedTags, getApprovedPetType and            *)
(* getApprovedBrand for the fields that are given; of the category, the    *)
(* pet type and the brand, the ones that are not given are emptied.  The   *)
(* product was loaded with the rows it refers to, and whether the ORM      *)
(* writes a new id beside a loaded row is left open.                       *)
resolveTaxonomyFields(p, given, chosen) ==
    LET ofKind(k) == IF k \in given THEN chosen \cap Of(k) ELSE {}
        single(k) == {ofKind(k)} \cup (IF OfProduct(p, k) = {} THEN {} ELSE {OfProduct(p, k)})
        tags == IF "tag" \in given THEN chosen \cap Of("tag") ELSE OfProduct(p, "tag")
        labels == IF "tag" \in given THEN {terms[t].name : t \in tags} ELSE products[p].labels
    IN {[terms |-> c \cup q \cup b \cup tags, labels |-> labels] :
            c \in single("category"), q \in single("petType"), b \in single("brand")}

Assign(r, p, given, chosen) ==
    /\ given # {}
    /\ \A t \in chosen : terms[t].kind \in given /\ t \in Approved(terms[t].kind)
    /\ \A k \in given \ {"tag"} : Cardinality(chosen \cap Of(k)) <= 1
    /\ \E row \in resolveTaxonomyFields(p, given, chosen) :
          Start(r, "assign", "product", [Idle EXCEPT !.bound = {p}, !.rows[p] = row])
    /\ UNCHANGED <<terms, next, products, answer>>

SaveProduct(r) ==
    LET row == [p \in job[r].bound |-> job[r].rows[p]]
    IN
    /\ At(r, "product")
    /\ IF \A p \in DOMAIN row, t \in Term : t \in row[p].terms => terms[t].exists
         THEN /\ products' = [p \in Product |-> IF p \in DOMAIN row THEN row[p] ELSE products[p]]
              /\ answer' = "ok"
         ELSE answer' = "raw" /\ UNCHANGED products
    /\ Return(r)
    /\ UNCHANGED <<terms, next>>

-----------------------------------------------------------------------------
(* The catalogue's filters                                                 *)

(* The text of a filter is a slug or a name; a name is its slug without a  *)
(* suffix.                                                                 *)
resolveApprovedCategoryFilter(k, s) ==
    LET bySlug == {t \in Approved(k) : terms[t].slug = s}
    IN IF bySlug # {} THEN bySlug ELSE {t \in Approved(k) : s[2] = 0 /\ terms[t].name = s[1]}

-----------------------------------------------------------------------------
Propose(r) ==
    \E n \in Name, role \in {"vendor", "admin"}, image \in BOOLEAN :
        \/ createCategory(r, n, role, image)
        \/ createTag(r, n, role)
        \/ createPetType(r, n, role, image)
        \/ createBrand(r, n, role)

Change(r, t) ==
    \/ \E n \in Name, given \in BOOLEAN, s \in Slug :
          /\ s[2] = 0
          /\ \/ updateCategory(r, t, n, given, s)
             \/ updateTag(r, t, n, given, s)
             \/ updatePetType(r, t, n, given, s)
             \/ updateBrand(r, t, n, given, s)
    \/ setCategoryImage(r, t)
    \/ setPetTypeImage(r, t)

Review(r, t) ==
    \/ approveCategory(r, t)
    \/ approveTag(r, t)
    \/ approvePetType(r, t)
    \/ approveBrand(r, t)
    \/ Reject(r, t)

Remove(r, t) ==
    \/ \E to \in Term \cup {None} : deleteCategory(r, t, to)
    \/ deleteTag(r, t)
    \/ deletePetType(r, t)
    \/ deleteBrand(r, t)

Next ==
    \E r \in Req :
        \/ Propose(r)
        \/ SaveTerm(r)
        \/ setCategoryStatus(r)
        \/ DeleteTerm(r)
        \/ SaveProduct(r)
        \/ \E t \in Term : Change(r, t) \/ Review(r, t) \/ Remove(r, t)
        \/ \E p \in Product, given \in SUBSET Kinds, chosen \in SUBSET Term : Assign(r, p, given, chosen)

Spec == Init /\ [][Next]_vars

-----------------------------------------------------------------------------
(* Types, and no product refers to a row that is gone.                     *)
TypeOK ==
    /\ terms \in [Term -> Category]
    /\ next \in 1 .. MaxTerms + 1
    /\ products \in [Product -> ProductRow]
    /\ \A p \in Product, t \in Term : t \in products[p].terms => terms[t].exists
    /\ job \in [Req -> Job]
    /\ answer \in {"ok", "conflict", "raw"}

(* A product of a category that is deleted has another category            *)
(* afterwards: deleteCategory asks for a replacement.                      *)
ProductKeepsItsCategory ==
    \A p \in Product : \A t \in OfProduct(p, "category") :
       ~terms'[t].exists => \E u \in products'[p].terms : terms'[u].kind = "category"

(* The names on a product are the names of its tags, as long as no tag is  *)
(* renamed.                                                                *)
LabelsFollow ==
    \A p \in Product : products[p].labels = {terms[t].name : t \in OfProduct(p, "tag")}

(* A category proposed by a vendor has a picture before it is shown.       *)
ProposedHasImage == \A t \in Approved("category") : terms[t].by = "vendor" => terms[t].image

(* The database's refusal of a duplicate is answered as a conflict, as     *)
(* isUniqueViolation is there for.                                         *)
ConflictIsClean == answer # "raw"

(* The link to an approved term, its slug, finds that term and no other.   *)
SlugFindsTerm ==
    \A k \in Kinds : \A t \in Approved(k) : resolveApprovedCategoryFilter(k, terms[t].slug) = {t}

=============================================================================
