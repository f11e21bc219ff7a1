------------------------------- MODULE Collect -------------------------------
(***************************************************************************)
(* How build chooses, fetches and parses its feeds (cmd/cloudattr/build.go,*)
(* attribution/pipeline.go, source.go, rezmoss.go and the plugins): build  *)
(* turns its flags into a list of feeds; HTTPSource retries, DigestSource  *)
(* hashes and compares with the pin, the parser of the feed yields entries,*)
(* and Collect or CollectResilient hand them to Build, feed after feed.    *)
(*                                                                         *)
(* Collect streams: an entry reaches Build as soon as it is parsed, and the*)
(* first error ends the build.  CollectResilient buffers: a feed reaches   *)
(* Build whole, or is reported and skipped.  One build may mix the two:    *)
(* --source rezmoss-all streams, its --with-reputation feeds are buffered, *)
(* and the table of --with-asn is loaded before either, or the build fails.*)
(*                                                                         *)
(* A body is what one request gets: len rows the parser makes an entry of  *)
(* (comments, filtered providers and unrouted rows make none) before the   *)
(* first that is an error to it, and then its end.  "full": the closing    *)
(* bracket or the last line.  "badrow": a row with a malformed address or  *)
(* number.  "inverted": the last line too, with a row of the ASN table     *)
(* somewhere whose two addresses parse and make no range, one before the   *)
(* other or of two families (a row that coalescing swallows is not seen).  *)
(* "garbled": syntax no decoder gets past.  "cut" and "gap": a read error, *)
(* inside a row or between two rows, before the comma.  A body is genuine  *)
(* or not, which is what a pin tells.                                      *)
(***************************************************************************)
EXTENDS Integers, Sequences, Functions

CONSTANTS
    Cloud, Reputation,   \* the two registries, in name order
    IPtoASN,       \* the plugin of the ASN registry
    Unified,       \* the all_providers.json of --source rezmoss-all
    Native,        \* the parser of each plugin
    HasDirect,     \* the plugins with a URL of their own
    Pinned,        \* <<plugin, ref>> of the feeds with a digest in --pins
    Selections,    \* the --providers lists, <<>> for none
    Attempts,      \* HTTPSource.Attempts
    MaxLen         \* bound on the entries of a body

Plugins == Range(Cloud) \cup Range(Reputation) \cup {IPtoASN}
Parser == {"rezmoss", "rezmoss-all", "lines", "document", "asn", "table"}

\* A plugin has a ref on the rezmoss mirror, one for its own files and mirrors,
\* and perhaps a URL.
Ref == {"rezmoss", "path", "url"}

ASSUME RegistryAssumption ==
    /\ Cloud \in Seq(Plugins) /\ Cloud # <<>>
    /\ Reputation \in Seq(Plugins) /\ Reputation # <<>>
    /\ Unified \notin Plugins
ASSUME SelectionAssumption ==
    <<>> \in Selections /\ \A s \in Selections : s \in Seq(Plugins \cup {Unified})
ASSUME ParserAssumption == Native \in [Plugins -> Parser] /\ HasDirect \subseteq Plugins
ASSUME PinAssumption == Pinned \subseteq (Plugins \cup {Unified}) \X Ref
ASSUME AttemptAssumption == Attempts \in Nat \ {0} /\ MaxLen \in Nat

VARIABLES
    flags,         \* the command line
    plan,          \* the feeds to read, in order
    feed,          \* the one being read
    phase,
    attempt,       \* of HTTPSource.Open
    body,          \* the body of each feed, NoBody before it came or once dropped
    open,          \* feeds whose response body is not closed
    parsed,        \* entries parsed from the current body
    buf,           \* out of bufferFeed and of ParseTable
    out,           \* what Build has consumed: <<feed, entry>>
    failures       \* what onFail was told

args == <<flags, plan>>
vars == <<flags, plan, feed, phase, attempt, body, open, parsed, buf, out, failures>>

Flags ==
    [mode : {"cloud", "reputation", "asn"},
     source : {"rezmoss", "rezmoss-all", "direct", "mirror"},
     providers : Selections,
     digest : {"none", "print", "pin"},
     fixtures : BOOLEAN, keepGoing : BOOLEAN,
     withReputation : BOOLEAN, withASN : BOOLEAN]
Feed == [plugin : Plugins \cup {Unified}, ref : Ref, parser : Parser,
         isolated : BOOLEAN]
Body == [genuine : BOOLEAN, len : 0..MaxLen,
         end : {"full", "badrow", "inverted", "garbled", "cut", "gap"}]
NoBody == [genuine |-> FALSE, len |-> 0, end |-> "none"]
Feeds == DOMAIN plan
Digested == flags.digest # "none"

TypeOK ==
    /\ flags \in Flags
    /\ plan \in Seq(Feed)
    /\ feed \in 1..(Len(plan) + 1)
    /\ phase \in {"start", "request", "status", "backoff", "hash", "parse",
                  "deliver", "done", "failed"}
    /\ attempt \in 1..Attempts
    /\ body \in [Feeds -> Body \cup {NoBody}]
    /\ open \subseteq Feeds
    /\ parsed \in 0..MaxLen
    /\ buf \in Seq(Nat \X Nat) /\ out \in Seq(Nat \X Nat)
    /\ failures \subseteq [feed : Feeds, err : {"open", "digest", "parse"}]

Init ==
    /\ flags \in Flags
    /\ plan = <<>> /\ body = <<>>
    /\ feed = 1
    /\ phase = "start"
    /\ attempt = 1
    /\ open = {} /\ failures = {}
    /\ parsed = 0
    /\ buf = <<>> /\ out = <<>>

-----------------------------------------------------------------------------
(***************************************************************************)
(* build: the flags choose the registry, the resolver of a plugin chooses  *)
(* its ref and its parser (the rezmoss schema for a ref of that mirror),   *)
(* --keep-going chooses Collect or CollectResilient.                       *)
(***************************************************************************)
RefOf(p, source) ==
    CASE flags.fixtures \/ source = "mirror" -> "path"
      [] ~flags.fixtures /\ source = "direct" /\ p \in HasDirect -> "url"
      [] OTHER -> "rezmoss"

Resolve(plugins, source) ==
    [i \in DOMAIN plugins |->
        [plugin   |-> plugins[i],
         ref      |-> RefOf(plugins[i], source),
         parser   |-> IF RefOf(plugins[i], source) = "rezmoss"
                        THEN "rezmoss" ELSE Native[plugins[i]],
         isolated |-> flags.keepGoing]]

Registry ==
    CASE flags.mode = "asn" -> <<IPtoASN>>
      [] flags.mode = "reputation" -> Reputation
      [] flags.mode = "cloud" -> Cloud

IsUnified == flags.mode = "cloud" /\ flags.source = "rezmoss-all"

\* selectFrom: the named plugins in the order given, or all of them.
Selected == IF flags.providers = <<>> THEN Registry ELSE flags.providers

Accepted ==
    /\ flags.mode = "reputation" => ~flags.withReputation
    /\ flags.mode = "asn" => ~flags.withReputation /\ ~flags.withASN
    /\ ~flags.fixtures =>
          flags.source \in IF flags.mode = "cloud" THEN {"rezmoss", "rezmoss-all", "direct"}
                                                  ELSE {"direct", "mirror"}
    /\ IsUnified \/ Range(Selected) \subseteq Range(Registry)

\* loadASNTable, if there is one, comes before the first feed is read.
TableFeed ==
    [plugin |-> IPtoASN, ref |-> IF flags.fixtures THEN "path" ELSE "url",
     parser |-> "table", isolated |-> FALSE]
ForTable(f) == flags.withASN /\ f = 1

\* CollectRezmossAll never isolates.
UnifiedFeed ==
    [plugin |-> Unified, ref |-> "rezmoss", parser |-> "rezmoss-all",
     isolated |-> FALSE]

Plan ==
    (IF flags.withASN THEN <<TableFeed>> ELSE <<>>)
    \o (IF IsUnified THEN <<UnifiedFeed>> ELSE Resolve(Selected, flags.source))
    \o (IF flags.withReputation THEN Resolve(Reputation, "direct") ELSE <<>>)

Start ==
    /\ phase = "start"
    /\ Accepted
    /\ plan' = Plan
    /\ body' = [f \in DOMAIN Plan |-> NoBody]
    /\ phase' = "request"
    /\ UNCHANGED <<flags, feed, attempt, open, parsed, buf, out, failures>>

Reject ==
    /\ phase = "start"
    /\ ~Accepted
    /\ phase' = "failed"
    /\ UNCHANGED <<args, feed, attempt, body, open, parsed, buf, out, failures>>

-----------------------------------------------------------------------------
(***************************************************************************)
(* A feed is over: the next one is resolved, or the stream ends.           *)
(***************************************************************************)
Advance ==
    /\ feed' = feed + 1
    /\ phase' = IF feed < Len(plan) THEN "request" ELSE "done"
    /\ attempt' = 1
    /\ parsed' = 0
    /\ buf' = <<>>

(***************************************************************************)
(* An open or parse error: CollectResilient reports it and goes on, Collect*)
(* yields it and Build ends, as build does if it is the table's.  A body   *)
(* that is open is closed.                                                 *)
(***************************************************************************)
GiveUp(err) ==
    /\ IF plan[feed].isolated
       THEN /\ failures' = failures \cup {[feed |-> feed, err |-> err]}
            /\ body' = [body EXCEPT ![feed] = NoBody]
            /\ Advance
       ELSE phase' = "failed" /\ UNCHANGED <<feed, attempt, body, parsed, buf, failures>>
    /\ open' = open \ {feed}
    /\ UNCHANGED <<args, out>>

-----------------------------------------------------------------------------
(***************************************************************************)
(* Source.Open.  FileSource opens the file or fails; HTTPSource retries.   *)
(***************************************************************************)
HasPin(f) == flags.digest = "pin" /\ <<plan[f].plugin, plan[f].ref>> \in Pinned

\* 200: the body is the caller's to close.  One without a pin has nothing to
\* differ from; only a row of the ASN table is a range.
Respond ==
    /\ phase = "request"
    /\ \E b \in Body :
          /\ HasPin(feed) \/ b.genuine
          /\ b.end = "inverted" => plan[feed].parser \in {"asn", "table"}
          /\ body' = [body EXCEPT ![feed] = b]
    /\ open' = open \cup {feed}
    /\ phase' = IF Digested THEN "hash" ELSE "parse"
    /\ UNCHANGED <<args, feed, attempt, parsed, buf, out, failures>>

\* A network error leaves no body.
NetworkError ==
    /\ phase = "request"
    /\ ~flags.fixtures
    /\ phase' = "backoff"
    /\ UNCHANGED <<args, feed, attempt, body, open, parsed, buf, out, failures>>

\* Any other status comes with a body, which nobody reads.
BadStatus ==
    /\ phase = "request"
    /\ ~flags.fixtures
    /\ open' = open \cup {feed}
    /\ phase' = "status"
    /\ UNCHANGED <<args, feed, attempt, body, parsed, buf, out, failures>>

\* Variant: the body of a try that is given up is not closed.
AbandonOpen ==
    /\ phase = "status"
    /\ phase' = "backoff"
    /\ UNCHANGED <<args, feed, attempt, body, open, parsed, buf, out, failures>>

\* 408, 429 or 5xx: the body is closed, the request made again.
Abandon ==
    /\ phase = "status"
    /\ open' = open \ {feed}
    /\ phase' = "backoff"
    /\ UNCHANGED <<args, feed, attempt, body, parsed, buf, out, failures>>

\* Variant: the tries are not counted.
RetryForever ==
    /\ phase = "backoff"
    /\ phase' = "request"
    /\ UNCHANGED <<args, feed, attempt, body, open, parsed, buf, out, failures>>

Retry ==
    /\ phase = "backoff"
    /\ attempt < Attempts
    /\ attempt' = attempt + 1
    /\ phase' = "request"
    /\ UNCHANGED <<args, feed, body, open, parsed, buf, out, failures>>

Exhausted == phase = "backoff" /\ attempt = Attempts /\ GiveUp("open")

\* Another status, a URL no request can be made for, a file that is not there.
Refused == phase \in {"request", "status"} /\ GiveUp("open")

-----------------------------------------------------------------------------
(***************************************************************************)
(* DigestSource.Open: the whole body is read and closed, and its hash      *)
(* compared with the pin if the feed has one.                              *)
(***************************************************************************)
ReadFails(f) == body[f].end \in {"cut", "gap"}

\* Variant: the hash is recorded but not compared.
MatchesAlways(f) == f \in Feeds

Matches(f) == HasPin(f) => body[f].genuine

Unread == phase = "hash" /\ ReadFails(feed) /\ GiveUp("open")

Mismatch == phase = "hash" /\ ~ReadFails(feed) /\ ~Matches(feed) /\ GiveUp("digest")

Hash ==
    /\ phase = "hash"
    /\ ~ReadFails(feed) /\ Matches(feed)
    /\ open' = open \ {feed}
    /\ phase' = "parse"
    /\ UNCHANGED <<args, feed, attempt, body, parsed, buf, out, failures>>

-----------------------------------------------------------------------------
(***************************************************************************)
(* The parsers.  A document is decoded whole before its first entry, and   *)
(* the ASN table too, all of whose rows must parse.  A row that is no range*)
(* is dropped without a word from the table of --with-asn, by NewASNTable, *)
(* and is an error of an --asn feed, after the entries of the rows sorted  *)
(* before it.  Lines and the rezmoss arrays are parsed as they are read.   *)
(* The scanner of the lines reports a read error after its last line       *)
(* (sc.Err).  The loop over an array ends when dec.More is false, which it *)
(* is at the closing bracket and at any read error that falls between two  *)
(* elements.                                                               *)
(***************************************************************************)
Read(loads, ends) == [loads |-> loads, ends |-> ends]

ParseDocument(b) == Read(b.end \in {"full", "badrow"}, b.end = "full")
ParseASN(b) == Read(b.end \in {"full", "inverted"}, b.end = "full")
ParseTable(b) == Read(b.end \in {"full", "inverted"}, TRUE)
ParseLines(b) == Read(TRUE, b.end = "full")
ParseRezmoss(b) == Read(TRUE, b.end \in {"full", "gap"})
ParseRezmossAll(b) == Read(TRUE, b.end \in {"full", "gap"})

ParseOf(f) ==
    CASE plan[f].parser = "document" -> ParseDocument(body[f])
      [] plan[f].parser = "asn" -> ParseASN(body[f])
      [] plan[f].parser = "table" -> ParseTable(body[f])
      [] plan[f].parser = "lines" -> ParseLines(body[f])
      [] plan[f].parser = "rezmoss" -> ParseRezmoss(body[f])
      [] plan[f].parser = "rezmoss-all" -> ParseRezmossAll(body[f])

Loads(f) == ParseOf(f).loads
EndsCleanly(f) == ParseOf(f).ends

\* collectFeed hands each entry on as it is parsed; bufferFeed and ParseTable
\* keep it.
Buffers(f) == plan[f].isolated \/ ForTable(f)

Entry(i) == <<feed, i>>

\* Variant: CollectResilient streams like Collect.
StreamAlways ==
    /\ phase = "parse"
    /\ Loads(feed)
    /\ parsed < body[feed].len
    /\ parsed' = parsed + 1
    /\ out' = Append(out, Entry(parsed + 1)) /\ UNCHANGED buf
    /\ UNCHANGED <<args, feed, phase, attempt, body, open, failures>>

Parse ==
    /\ phase = "parse"
    /\ Loads(feed)
    /\ parsed < body[feed].len
    /\ parsed' = parsed + 1
    /\ IF Buffers(feed)
       THEN buf' = Append(buf, Entry(parsed + 1)) /\ UNCHANGED out
       ELSE out' = Append(out, Entry(parsed + 1)) /\ UNCHANGED buf
    /\ UNCHANGED <<args, feed, phase, attempt, body, open, failures>>

Undecodable == phase = "parse" /\ ~Loads(feed) /\ GiveUp("parse")

ParseFails ==
    /\ phase = "parse"
    /\ Loads(feed)
    /\ parsed = body[feed].len
    /\ ~EndsCleanly(feed)
    /\ GiveUp("parse")

\* A table without a routed range is refused.
EmptyTable ==
    /\ phase = "parse"
    /\ ForTable(feed) /\ Loads(feed)
    /\ body[feed].len = 0
    /\ GiveUp("parse")

\* The feed ends cleanly: the deferred Close runs, a buffer is handed on.
End ==
    /\ phase = "parse"
    /\ Loads(feed)
    /\ parsed = body[feed].len
    /\ EndsCleanly(feed)
    /\ ForTable(feed) => parsed > 0
    /\ open' = open \ {feed}
    /\ IF plan[feed].isolated
       THEN phase' = "deliver" /\ UNCHANGED <<feed, attempt, parsed, buf>>
       ELSE Advance
    /\ UNCHANGED <<args, body, out, failures>>

Deliver ==
    /\ phase = "deliver"
    /\ IF buf # <<>>
       THEN /\ out' = Append(out, Head(buf))
            /\ buf' = Tail(buf)
            /\ UNCHANGED <<feed, phase, attempt, parsed>>
       ELSE Advance /\ UNCHANGED out
    /\ UNCHANGED <<args, body, open, failures>>

Next ==
    \/ Start \/ Reject
    \/ Respond \/ NetworkError \/ BadStatus \/ Abandon \/ Retry \/ Exhausted \/ Refused
    \/ Hash \/ Unread \/ Mismatch
    \/ Parse \/ Undecodable \/ ParseFails \/ EmptyTable \/ End \/ Deliver

Spec == Init /\ [][Next]_vars

(***************************************************************************)
(* Collection is one goroutine that never waits for another; the timeout of*)
(* the HTTP client ends every request and every body.                      *)
(***************************************************************************)
FairSpec == Spec /\ WF_vars(Next)

-----------------------------------------------------------------------------
Nothing(f) == \A i \in DOMAIN out : out[i][1] # f

\* The entries of f in out are its first n, in order and uninterrupted, after k
\* others.
Block(f, k, n) ==
    /\ k + n <= Len(out)
    /\ \A i \in DOMAIN out : out[i][1] = f <=> i \in (k + 1)..(k + n)
    /\ \A i \in 1..n : out[k + i] = <<f, i>>

Past(f) == f < feed
Failed(f) == \E x \in failures : x.feed = f

\* Build got the whole of the feed, and its parser saw the end of the body.
Complete(f) ==
    /\ Loads(f) /\ EndsCleanly(f)
    /\ \E k \in 0..Len(out) : Block(f, k, body[f].len)

\* The feeds reach Build in the order of the plan, and no entry comes twice.
InPlanOrder ==
    \A i, j \in DOMAIN out : i < j =>
        \/ out[i][1] < out[j][1]
        \/ out[i][1] = out[j][1] /\ out[i][2] < out[j][2]

(***************************************************************************)
(* Build gets a feed whole or not at all: a feed that was reported has     *)
(* contributed nothing, however far its download or its parse had come, and*)
(* one that was not has contributed every entry once, in order and with no *)
(* other feed's in between, from a body its parser saw the end of.  What is*)
(* buffered contributes nothing until it has parsed to its end.  The table *)
(* of --with-asn contributes no entry; the build goes on only with one that*)
(* was read to its end, each line of it a parsed row, and of which a range *)
(* was left when the rows that are none had been dropped.  An --asn feed   *)
(* with such a row is reported, or ends the build.  What Build has got is  *)
(* in the order of the plan at every moment, in a build that fails too:    *)
(* cloud feeds first, which is what a first writer is.                     *)
(***************************************************************************)
AllOrNothing ==
    /\ \A f \in Feeds : Past(f) =>
          IF ForTable(f) THEN Nothing(f) /\ Loads(f) /\ body[f].len > 0
          ELSE IF Failed(f) THEN plan[f].isolated /\ Nothing(f)
          ELSE Complete(f)
    /\ \A f \in Feeds : f = feed /\ Buffers(f) /\ phase # "deliver" => Nothing(f)
    /\ InPlanOrder

(***************************************************************************)
(* "A feed that errors partway (e.g. a truncated download) contributes     *)
(* nothing rather than a partial set" (pipeline.go, CollectResilient).     *)
(***************************************************************************)
TruncatedContributesNothing ==
    \A i \in DOMAIN out :
        LET f == out[i][1] IN plan[f].isolated => body[f].end = "full"

(***************************************************************************)
(* No entry of a feed whose ref is pinned comes from a body with another   *)
(* digest ("a changed payload fails ... instead of shipping"), streamed,   *)
(* buffered or retried.  A pin is for one ref: the same plugin read under  *)
(* another, by another --source, is not held to it.                        *)
(***************************************************************************)
PinnedEntriesGenuine ==
    \A i \in DOMAIN out :
        HasPin(out[i][1]) => body[out[i][1]].genuine

(***************************************************************************)
(* A response body is open only while its status is looked at or its feed  *)
(* hashed or parsed: every way out of Open, bufferFeed, collectFeed and    *)
(* loadASNTable closes it, and so does every try that is given up.         *)
(***************************************************************************)
NoBodyLeak ==
    open = IF phase \in {"status", "hash"} \/ (phase = "parse" /\ ~Digested)
             THEN {feed} ELSE {}

(***************************************************************************)
(* Collection ends: retries are bounded and a failing feed is left.        *)
(***************************************************************************)
Ends == <>(phase \in {"done", "failed"})
=============================================================================
