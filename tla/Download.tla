------------------------------ MODULE Download ------------------------------
(***************************************************************************)
(* download() of helpers/urlutils.py over the connections of               *)
(* helpers/cachedns_urllib.py.  Every attempt opens a connection; the      *)
(* connect() of HTTP answers a failure of any kind with a second lookup    *)
(* and a second connect, that of HTTPS swallows it.  The names of hosts    *)
(* are looked up through lru_cache, which keeps an address for a time and  *)
(* holds a failure for some calls, or the same time.                       *)
(***************************************************************************)
EXTENDS Integers

CONSTANTS
  MaxRetry,      \* largest max_retry
  Hold,          \* --dnscache_retry_per_exception
  MaxDownloads   \* downloads that one process makes

\* What the constants are; the module that gives them values assumes it.
DownloadAssumption ==
  MaxRetry \in Nat /\ Hold \in Nat \ {0, 1} /\ MaxDownloads \in Nat \ {0}

VARIABLES
  opts,          \* the arguments: [rethrow, throwOnBanned, maxRetry, https, empty]
  where,         \* "trying", "again", "connected", "sleeping", "returned", "raised"
  retry, data,   \* the variables of download()
  error,         \* the exception that was raised
  pages,         \* the answers read: "good" or "banned", by the attempt's number
  dns,           \* the resolver's cache: whether it has the address, whether
                 \* that has expired, and the count of a held failure
  asked,         \* queries of this attempt for a name that the cache has not
  idle,          \* attempts that met the held failure since the last query
  downloads

call == <<opts, retry, data, error, pages, downloads>>
names == <<dns, asked, idle>>
vars == <<where, call, names>>

None == "none"
Unheld == -1
NoPage == 0
Over == where \in {"returned", "raised"}

\* empty: the url is '' or None.
Options == [rethrow : BOOLEAN, throwOnBanned : BOOLEAN, maxRetry : 0..MaxRetry, https : BOOLEAN,
            empty : BOOLEAN]

\* `if not url: return data`
Entry(options) == IF options.empty THEN "returned" ELSE "trying"

Fresh ==
  /\ opts' \in Options /\ where' = Entry(opts') /\ retry' = 0 /\ data' = NoPage /\ error' = None
  /\ pages' = <<>> /\ asked' = 0

NotKnown == [known |-> FALSE, stale |-> FALSE, held |-> Unheld]

Init ==
  /\ opts \in Options /\ where = Entry(opts) /\ retry = 0 /\ data = NoPage /\ error = None
  /\ pages = <<>> /\ asked = 0
  /\ dns = NotKnown /\ idle = 0
  /\ downloads = 1

Again ==
  /\ Over /\ downloads < MaxDownloads
  /\ downloads' = downloads + 1
  /\ Fresh
  /\ UNCHANGED <<dns, idle>>

-----------------------------------------------------------------------------
(* CustomDnsResolver(host): the address if it is known, the held failure   *)
(* for Hold - 1 calls, and otherwise a query.  An address that has expired *)
(* is asked for every time until that succeeds: a failure of this query is *)
(* not held (lines 30-31 of cache.py are not in the clause of line 33).    *)

\* A plausible bug: the bound is compared before the call is counted.
HeldLonger == ~dns.known /\ dns.held \in 0..(Hold - 1)
Held == ~dns.known /\ dns.held \in 0..(Hold - 2)

\* first: whether it is the attempt's first lookup.
Lookup(found, first) ==
  \/ /\ dns.known /\ ~dns.stale /\ found
     /\ UNCHANGED names
  \/ /\ dns.known /\ dns.stale
     /\ dns' = [dns EXCEPT !.stale = ~found]
     /\ UNCHANGED <<asked, idle>>
  \/ /\ Held /\ ~found
     /\ dns' = [dns EXCEPT !.held = @ + 1]
     /\ idle' = idle + IF first THEN 1 ELSE 0
     /\ UNCHANGED asked
  \/ /\ ~dns.known /\ ~Held
     /\ dns' = IF found THEN [NotKnown EXCEPT !.known = TRUE] ELSE [dns EXCEPT !.held = 0]
     /\ asked' = asked + 1
     /\ idle' = 0

\* Environment: --dnscache_dura seconds pass, or other names drive this one out
\* of the cache.  A held failure whose time is up counts like none.  What the
\* first lookup of connect() asked for is still there for the second.
Age ==
  /\ \/ dns.known /\ ~dns.stale /\ dns' = [dns EXCEPT !.stale = TRUE]
     \/ ~(where = "again" /\ asked > 0) /\ dns # NotKnown /\ dns' = NotKnown
  /\ UNCHANGED <<where, call, asked, idle>>

-----------------------------------------------------------------------------
Raise(e) ==
  /\ where' = "raised" /\ error' = e
  /\ UNCHANGED <<opts, retry, data, pages, downloads>>

\* A plausible bug: the error is only logged.
GiveUpQuietly(e) == where' = "returned" /\ UNCHANGED call

\* `done = True; if rethrow: raise`
GiveUp(e) ==
  IF opts.rethrow THEN Raise(e)
  ELSE /\ where' = "returned"
       /\ UNCHANGED call

\* urllib2.Request and urlopen refuse the url before they connect.
BadUrl ==
  /\ where = "trying"
  /\ GiveUp("ValueError")
  /\ UNCHANGED names

FirstConnect ==
  /\ where = "trying"
  /\ \E found \in BOOLEAN, accepted \in BOOLEAN :
       /\ Lookup(found, TRUE)
       /\ IF found /\ accepted THEN where' = "connected" /\ UNCHANGED call
          ELSE IF opts.https   THEN Raise("other")       \* None has no sendall
          ELSE where' = "again" /\ UNCHANGED call

\* What the second one raises is wrapped by urllib2, a timeout too.
SecondConnect ==
  /\ where = "again"
  /\ \E found \in BOOLEAN, accepted \in BOOLEAN :
       /\ Lookup(found, FALSE)
       /\ IF found /\ accepted THEN where' = "connected" /\ UNCHANGED call
                               ELSE GiveUp("URLError")

\* The server refuses, or the connection breaks while the request is sent or
\* the answer is read.
Fails(e) ==
  /\ where = "connected"
  /\ IF e = "other" THEN Raise(e) ELSE GiveUp(e)
  /\ UNCHANGED names

\* Every attempt but the last one has counted as a retry.
attempt == retry + 1
Page(kind) == [n \in (DOMAIN pages) \cup {attempt} |-> IF n = attempt THEN kind ELSE pages[n]]

Good ==
  /\ where = "connected"
  /\ data' = attempt /\ pages' = Page("good")
  /\ where' = "returned"
  /\ UNCHANGED <<opts, retry, error, downloads, names>>

\* fn_is_banned(data)
Banned ==
  /\ where = "connected"
  /\ data' = attempt /\ pages' = Page("banned")
  /\ IF opts.throwOnBanned
     THEN where' = "raised" /\ error' = "Banned" /\ UNCHANGED retry
     ELSE where' = "sleeping" /\ retry' = retry + 1 /\ UNCHANGED error
  /\ UNCHANGED <<opts, downloads, names>>

\* A plausible bug: a timeout that is not counted.
TimeoutUncounted ==
  /\ where = "connected"
  /\ where' = "sleeping" /\ error' = IF opts.rethrow THEN "timeout" ELSE None
  /\ UNCHANGED <<opts, retry, data, pages, downloads, names>>

\* socket.timeout while the answer is read: it sleeps, and raises after that.
Timeout ==
  /\ where = "connected"
  /\ retry' = retry + 1
  /\ where' = "sleeping" /\ error' = IF opts.rethrow THEN "timeout" ELSE None
  /\ UNCHANGED <<opts, data, pages, downloads, names>>

\* A plausible bug: the page of the attempt before is dropped.
WakeAfresh ==
  /\ where = "sleeping"
  /\ IF error # None THEN where' = "raised" /\ UNCHANGED <<asked, data>>
     ELSE IF retry <= opts.maxRetry
     THEN where' = "trying" /\ asked' = 0 /\ data' = NoPage
     ELSE where' = "returned" /\ UNCHANGED <<asked, data>>
  /\ UNCHANGED <<opts, retry, error, pages, downloads, dns, idle>>

\* `while retry <= max_retry`
Wake ==
  /\ where = "sleeping"
  /\ IF error # None THEN where' = "raised" /\ UNCHANGED asked
     ELSE IF retry <= opts.maxRetry
     THEN where' = "trying" /\ asked' = 0
     ELSE where' = "returned" /\ UNCHANGED asked
  /\ UNCHANGED <<opts, retry, data, error, pages, downloads, dns, idle>>

Step ==
  \/ BadUrl \/ FirstConnect \/ SecondConnect \/ Good \/ Banned \/ Timeout \/ Wake
  \/ \E e \in {"HTTPError", "URLError", "other"} : Fails(e)

Next == Step \/ Again \/ Age
Fairness == WF_vars(Step)
Spec == Init /\ [][Next]_vars

-----------------------------------------------------------------------------
\* The types of a download's state.
TypeOK ==
  /\ opts \in Options
  /\ where \in {"trying", "again", "connected", "sleeping", "returned", "raised"}
  /\ error \in {None, "ValueError", "HTTPError", "URLError", "other", "Banned", "timeout"}
  /\ retry \in 0..(opts.maxRetry + 1)
  /\ DOMAIN pages \subseteq 1..(opts.maxRetry + 1)
  /\ data \in DOMAIN pages \cup {NoPage}
  /\ dns.held \in {Unheld} \cup 0..Hold /\ (dns.stale => dns.known)

\* What is returned is the page of the last attempt that read one, also when
\* that is an earlier attempt and its page was banned: a later timeout or error
\* does not lose it.  It is NoPage (None) only if no attempt read a page.
ReturnsLastPage ==
  where = "returned" =>
    IF pages = <<>> THEN data = NoPage
    ELSE data \in DOMAIN pages /\ \A n \in DOMAIN pages : n <= data

\* With rethrow the caller gets a page or an exception, unless the url is empty;
\* without it only what is none of the expected errors is raised; and a page that
\* is not banned is never followed by another attempt.
EndsAsAsked ==
  /\ where = "returned" /\ opts.rethrow /\ ~opts.empty => data # NoPage
  /\ where = "raised" /\ ~opts.rethrow => error \in {"other", "Banned"}
  /\ \A n \in DOMAIN pages : pages[n] = "good" => n = attempt /\ where = "returned"

\* connect() looks a name up twice, but a name that the cache does not have is
\* asked for once in an attempt: the answer or the failure serves both lookups.
\* It is asked for again before Hold attempts have met the held failure.  The
\* renewals of an address that has expired are not among these.
HeldIsRetried == asked <= 1 /\ idle < Hold
=============================================================================
