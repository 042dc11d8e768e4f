------------------------------- MODULE Crawler -------------------------------
(***************************************************************************)
(* The listings crawler (internal/bds, cmd/bdscrawler): every page of every      *)
(* source is fetched on a goroutine of its own, the listings found are merged    *)
(* under one lock, and the merged ones are then saved one by one into a file      *)
(* that earlier runs have written too.                                          *)
(***************************************************************************)
EXTENDS Naturals, Sequences, FiniteSets

CONSTANTS
    Pages,          \* the pages of all sources asked for
    SourceOf,       \* the source of a page
    Worlds,         \* what the sites may hold: the cards of each page
    NoUrl,          \* a card whose address the parser does not find
    Budget,         \* the highest price wanted
    MaxRuns,        \* bound: runs of the program
    MaxFaults       \* bound: pages that cannot be fetched, and kills

CrawlerConstants ==
    /\ SourceOf \in [Pages -> {"inhadat", "alonhadat", "chotot", "nhatot", "batdongsan",
                               "muaban", "homedy"}]
    /\ Budget \in Nat /\ MaxRuns \in Nat /\ MaxFaults \in Nat

VARIABLES
    site,           \* the cards the pages hold during this run
    chrome,         \* is there a Chrome; has initCDP run; is there an allocator
    page,           \* each page's goroutine: start, launched, fetched, done, failed
    seen, results,  \* CrawlAll's, under its lock
    at,             \* main: crawling, saving, shown, killed, crashed
    rows,           \* the table listings: url and price
    runs, faults

vars == <<site, chrome, page, seen, results, at, rows, runs, faults>>

Init ==
    /\ site \in Worlds
    /\ page = [p \in Pages |-> "start"]
    /\ seen = {} /\ results = <<>>
    /\ at = "crawling"
    /\ chrome \in [there : BOOLEAN, once : {FALSE}, allocator : {FALSE}]
    /\ rows = {}
    /\ runs = 1
    /\ faults = 0

-----------------------------------------------------------------------------
(* The parsers.  A card has the address its site gives it, the first other link   *)
(* in it, the number of its ad, its price (0: none) and whether that is a price   *)
(* per square metre.                                                        *)

Listing(url, price) == [url |-> url, price |-> price]

HasUrl(c) == c.url # NoUrl

ParseInhadat(c) == Listing(c.url, IF c.perM2 THEN 0 ELSE c.price)

ParseAlonhadat(c) == Listing(c.url, c.price)

ParseBatdongsan(c) == Listing(c.url, c.price)

ParseHomedy(c) == Listing(IF HasUrl(c) THEN c.url ELSE c.link, c.price)

(* The two of Chotot's gateway: the address is made of the ad's number.           *)
ParseChotot(c) == Listing(IF c.id = 0 THEN NoUrl ELSE c.url, c.price)

ParseNhatotJSON(c) == Listing(IF c.id = 0 THEN NoUrl ELSE c.url, c.price)

ParseMuaban(c) == Listing(IF c.id = 0 THEN NoUrl ELSE c.url, c.price)

ParseCard(source, c) ==
    CASE source = "inhadat"    -> ParseInhadat(c)
      [] source = "alonhadat"  -> ParseAlonhadat(c)
      [] source = "chotot"     -> ParseChotot(c)
      [] source = "nhatot"     -> ParseNhatotJSON(c)
      [] source = "batdongsan" -> ParseBatdongsan(c)
      [] source = "muaban"     -> ParseMuaban(c)
      [] source = "homedy"     -> ParseHomedy(c)

(* Mutant: a card without an address is listed. *)
AddressedAlways(l) == TRUE

(* A card without an address is passed over.                                    *)
Addressed(l) == l.url # NoUrl

Parse(p) ==
    SelectSeq([i \in DOMAIN site[p] |-> ParseCard(SourceOf[p], site[p][i])], Addressed)

-----------------------------------------------------------------------------
UseCDP(p) == SourceOf[p] \in {"batdongsan", "muaban", "homedy"}

Launched == chrome.allocator

(* fetchCDP's initCDP: the Once is spent whether or not a Chrome was found, and    *)
(* only its first caller hears that there is none; the next goes on with no        *)
(* allocator, which the library does not survive.                                *)
LaunchCDP(p) ==
    /\ at = "crawling" /\ page[p] = "start" /\ UseCDP(p)
    /\ IF ~chrome.once
       THEN /\ chrome' = [chrome EXCEPT !.once = TRUE, !.allocator = chrome.there]
            /\ page' = [page EXCEPT ![p] = IF chrome.there THEN "launched" ELSE "failed"]
            /\ at' = at
       ELSE /\ chrome' = chrome
            /\ IF Launched THEN page' = [page EXCEPT ![p] = "launched"] /\ at' = at
               ELSE page' = page /\ at' = "crashed"
    /\ UNCHANGED <<site, seen, results, rows, runs, faults>>

(* fetch, the sources' own fetchers, or the page in Chrome.                      *)
Fetched(p) ==
    /\ at = "crawling"
    /\ page[p] = IF UseCDP(p) THEN "launched" ELSE "start"
    /\ \/ page' = [page EXCEPT ![p] = "fetched"] /\ faults' = faults
       \/ /\ faults < MaxFaults /\ faults' = faults + 1
          /\ page' = [page EXCEPT ![p] = "failed"]
    /\ UNCHANGED <<site, chrome, seen, results, at, rows, runs>>

Affordable(l) == ~(l.price > 0 /\ Budget > 0 /\ l.price > Budget)

(* One listing under the lock.                                                 *)
MergeOne(acc, l) ==
    IF l.url \in acc.seen THEN acc
    ELSE [seen |-> acc.seen \union {l.url},
          results |-> IF Affordable(l) THEN Append(acc.results, l) ELSE acc.results]

Merge(p) ==
    /\ at = "crawling" /\ page[p] = "fetched"
    /\ LET found == Parse(p)
           Step[i \in 0..Len(found)] ==
               IF i = 0 THEN [seen |-> seen, results |-> results]
               ELSE MergeOne(Step[i - 1], found[i])
       IN  seen' = Step[Len(found)].seen /\ results' = Step[Len(found)].results
    /\ page' = [page EXCEPT ![p] = "done"]
    /\ UNCHANGED <<site, chrome, at, rows, runs, faults>>

Ended(p) == page[p] \in {"done", "failed"}

(* wg.Wait.                                                                 *)
CrawlAll ==
    /\ at = "crawling"
    /\ \A p \in Pages : Ended(p)
    /\ at' = "saving"
    /\ UNCHANGED <<site, chrome, page, seen, results, rows, runs, faults>>

(* Save: INSERT OR IGNORE on the address, so a row keeps its first price.         *)
Inserted(l) ==
    IF \E r \in rows : r.url = l.url THEN rows ELSE rows \union {l}

Save ==
    /\ at = "saving" /\ results # <<>>
    /\ rows' = Inserted(Head(results))
    /\ results' = Tail(results)
    /\ UNCHANGED <<site, chrome, page, seen, at, runs, faults>>

(* Search and printTable.                                                     *)
Show ==
    /\ at = "saving" /\ results = <<>>
    /\ at' = "shown"
    /\ UNCHANGED <<site, chrome, page, seen, results, rows, runs, faults>>

Killed ==
    /\ at \in {"crawling", "saving"}
    /\ faults < MaxFaults /\ faults' = faults + 1
    /\ at' = "killed"
    /\ UNCHANGED <<site, chrome, page, seen, results, rows, runs>>

(* The next run: the sites may have moved on, a Chrome may have been installed.   *)
RunAgain ==
    /\ at \in {"shown", "killed", "crashed"}
    /\ runs < MaxRuns /\ runs' = runs + 1
    /\ site' \in Worlds
    /\ page' = [p \in Pages |-> "start"]
    /\ seen' = {} /\ results' = <<>>
    /\ at' = "crawling"
    /\ chrome' \in [there : BOOLEAN, once : {FALSE}, allocator : {FALSE}]
    /\ UNCHANGED <<rows, faults>>

Next ==
    \/ \E p \in Pages : LaunchCDP(p) \/ Fetched(p) \/ Merge(p)
    \/ CrawlAll \/ Save \/ Show \/ Killed \/ RunAgain

Spec == Init /\ [][Next]_vars


-----------------------------------------------------------------------------
(* Rows have addresses, one each, and every card's address is in its row's class.  *)
TypeOK ==
    /\ at \in {"crawling", "saving", "shown", "killed", "crashed"}
    /\ page \in [Pages -> {"start", "launched", "fetched", "done", "failed"}]
    /\ chrome.allocator => chrome.there /\ chrome.once
    /\ NoUrl \notin seen
    /\ runs \in 1..MaxRuns /\ faults \in 0..MaxFaults

(* The listings the merged pages held, in this run.                             *)
Found(url) ==
    {l \in UNION {{Parse(p)[i] : i \in DOMAIN Parse(p)} : p \in {q \in Pages : page[q] = "done"}} :
        l.url = url}

(* What is merged does not depend on the order the pages came in: an address all   *)
(* of whose copies are wanted is kept once, one none of whose copies is wanted is    *)
(* not kept (crawler.go:110-127).                                              *)
MergedOnce ==
    at = "crawling" =>
        \A url \in seen :
            LET kept == {i \in DOMAIN results : results[i].url = url} IN
            /\ Cardinality(kept) <= 1
            /\ (\A l \in Found(url) : Affordable(l)) => kept # {}
            /\ (\A l \in Found(url) : ~Affordable(l)) => kept = {}

(* The program ends without showing its list only when it is killed, or when there  *)
(* is no Chrome and more than one page needs it (cdp.go:46-87: the second call of    *)
(* initCDP does not hear of the first one's error).                             *)
CrashNeedsTwoPages ==
    at = "crashed" => ~chrome.there /\ Cardinality({p \in Pages : UseCDP(p)}) > 1

(* A row is never changed or lost by a later run, whatever the site says by then     *)
(* (db.go:67-81), and each address has one row.                                *)
RowsStay == rows \subseteq rows' /\ \A r, s \in rows' : r.url = s.url => r = s


=============================================================================
