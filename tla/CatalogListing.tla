--------------------------- MODULE CatalogListing ---------------------------
(***************************************************************************)
(* ListTables of the Glue and REST catalogs (internal/catalog/glue.go,     *)
(* internal/catalog/rest/rest.go): the server answers in pages, in name    *)
(* order, while tables are created, dropped and re-registered.  The        *)
(* servers are external: they may answer with any number of tables up to   *)
(* PageSize, none included, and say whether there are more.  LoadTable     *)
(* then looks the listed tables up, one request each.                      *)
(***************************************************************************)
EXTENDS Naturals, SequencesExt

CONSTANTS
    MaxName,     \* bound: the names of the namespace are 1..MaxName, in order
    PageSize,    \* most tables in a page
    MaxChange    \* bound: changes of the catalog

ASSUME ListingAssumption ==
    /\ MaxName \in Nat /\ MaxChange \in Nat
    /\ PageSize \in Nat \ {0}

(* What Glue keeps of a table: its table_type and whether it has one of    *)
(* the metadata_location parameters.  REST has Iceberg tables only.        *)
Parameters == [type : {"", "ICEBERG", "OTHER"}, location : BOOLEAN]
Absent == [type |-> "absent", location |-> FALSE]
IcebergParameters ==
    {[type |-> "ICEBERG", location |-> TRUE], [type |-> "ICEBERG", location |-> FALSE],
     [type |-> "", location |-> TRUE]}

VARIABLES
    catalog,  \* the catalog that --catalog selects
    tables,   \* tables[n]: the parameters of table n, or Absent
    changes,  \* changes of the catalog so far
    listing,  \* "idle", "paging", "done" or "failed"
    pageToken,\* the name after which the next page begins
    out,      \* the tables listed so far
    loads,    \* loads[n]: what LoadTable made of table n, or NotLoaded
    cut,      \* history: the server had more to say when the listing ended
    always,   \* history: Iceberg tables at every instant since the listing began
    ever      \* history: Iceberg tables at some instant since then

listingVars == <<catalog, tables, changes, listing, pageToken, out, loads, cut, always, ever>>

Names == 1..MaxName
Registered ==
    CASE catalog = "glue" -> Parameters
      [] catalog = "rest" -> {[type |-> "ICEBERG", location |-> TRUE]}
      [] OTHER -> {}
NotLoaded == "not loaded"
IcebergTables == {n \in Names : tables[n] \in IcebergParameters}

-----------------------------------------------------------------------------
(* A definition preceded by a variant of its name: the variant is a slip   *)
(* that a property below would notice, and no action uses it.              *)

IsIceberg(p) == p.type = "ICEBERG" \/ (p.type = "" /\ p.location)

ListingInit ==
    /\ tables \in [Names -> Registered \cup {Absent}]
    /\ changes = 0
    /\ listing = "idle"
    /\ pageToken = 0
    /\ out = <<>>
    /\ loads = [n \in Names |-> NotLoaded]
    /\ cut = FALSE
    /\ always = {} /\ ever = {}

Start ==
    /\ listing = "idle"
    /\ listing' = "paging"
    /\ always' = IcebergTables /\ ever' = IcebergTables
    /\ UNCHANGED <<catalog, tables, changes, pageToken, out, loads, cut>>

(* External: the page the server returns: the names after the page token   *)
(* up to last, and whether there are more.                                 *)
After(n) == {m \in Names : m > n /\ tables[m] # Absent}
Page(last) == {m \in After(pageToken) : m <= last}
MoreAfter(last) == After(last) # {}

(* Glue: go on with NextToken until there is none.  REST: the tables of    *)
(* the first response; next-page-token is decoded and not used.            *)
GoesOnNever(last) == FALSE
GoesOn(last) == catalog = "glue" /\ MoreAfter(last)

NextTokenSame(last) == pageToken
NextToken(last) == last

(* The loop over the page, in the order of names, appends what it accepts. *)
Appended(last) ==
    LET upTo[n \in 0..MaxName] ==
          IF n = 0 THEN out
          ELSE IF n \in Page(last) /\ IsIceberg(tables[n]) THEN Append(upTo[n - 1], n)
          ELSE upTo[n - 1]
    IN  upTo[MaxName]

ReadPage(last) ==
    /\ listing = "paging"
    /\ last \in Names /\ last > pageToken
    /\ Cardinality(Page(last)) <= PageSize
    /\ out' = Appended(last)
    /\ IF GoesOn(last)
       THEN pageToken' = NextToken(last) /\ UNCHANGED <<listing, cut>>
       ELSE listing' = "done" /\ cut' = (catalog = "rest" /\ MoreAfter(last)) /\ UNCHANGED pageToken
    /\ UNCHANGED <<catalog, tables, changes, loads, always, ever>>

(* Any error of a page is an error of the listing.                         *)
ReadFails ==
    /\ listing = "paging"
    /\ listing' = "failed"
    /\ out' = <<>>
    /\ UNCHANGED <<catalog, tables, changes, pageToken, loads, cut, always, ever>>

(* LoadTable: a table that is gone is ErrTableNotFound, one without        *)
(* parameters of the location is an error of its own, and an Iceberg table *)
(* or not plays no part.                                                   *)
OutcomeByLocation(p) == IF p.location THEN "loaded" ELSE "not found"
Outcome(p) == IF p = Absent THEN "not found" ELSE IF p.location THEN "loaded" ELSE "no location"

Load(n) ==
    /\ listing = "done" /\ n \in Range(out) /\ loads[n] = NotLoaded
    /\ loads' \in {[loads EXCEPT ![n] = o] : o \in {Outcome(tables[n]), "error"}}
    /\ UNCHANGED <<catalog, tables, changes, listing, pageToken, out, cut, always, ever>>

(* External: somebody creates, drops or alters a table.                    *)
Change(n) ==
    /\ changes < MaxChange /\ listing \in {"paging", "done"}
    /\ changes' = changes + 1
    /\ tables' \in {[tables EXCEPT ![n] = p] : p \in (Registered \cup {Absent}) \ {tables[n]}}
    /\ always' = always \cap IcebergTables'
    /\ ever' = ever \cup IcebergTables'
    /\ UNCHANGED <<catalog, listing, pageToken, out, loads, cut>>

ListingNext == Start \/ ReadFails \/ \E n \in Names : ReadPage(n) \/ Load(n) \/ Change(n)

-----------------------------------------------------------------------------
(* Properties                                                              *)

Listed == Range(out)

(* Every variable keeps its type, and no table is listed twice: it would   *)
(* be scanned and reported twice.                                          *)
ListingTypeOK ==
    /\ tables \in [Names -> Registered \cup {Absent}]
    /\ changes \in 0..MaxChange
    /\ listing \in {"idle", "paging", "done", "failed"}
    /\ pageToken \in 0..MaxName
    /\ out \in Seq(Names) /\ Len(out) = Cardinality(Listed)
    /\ loads \in [Names -> {NotLoaded, "loaded", "not found", "no location", "error"}]
    /\ cut \in BOOLEAN
    /\ always \subseteq ever /\ ever \subseteq Names

(* cli/audit.go:62: with --namespace every Iceberg table under the         *)
(* namespace is scored.  A finished listing has every table that was there *)
(* from beginning to end, whatever came and went between the pages, and    *)
(* nothing that never was one.  The REST listing makes one request         *)
(* (rest.go:198) and drops the token of a further page, so of REST the     *)
(* former is claimed of one-page answers only.                             *)
ListingIsExact ==
    listing = "done" => Listed \subseteq ever /\ (cut \/ always \subseteq Listed)

(* catalog.go:17: ErrTableNotFound is for tables that do not exist.  Of a  *)
(* table that was listed it means that the table was dropped since: one    *)
(* that was there all along, by the rule of the listing, which accepts     *)
(* tables that have no location, is never said to be missing.              *)
NotFoundMeansDropped == \A n \in Names : loads[n] = "not found" => n \notin always
=============================================================================
