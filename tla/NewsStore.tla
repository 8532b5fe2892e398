----------------------------- MODULE NewsStore -----------------------------
(***************************************************************************)
(* News articles and their links to instruments (apps/news): runs of       *)
(* ingest_news_recent fetch the provider's feed and upsert it article by   *)
(* article (upsert_articles), one transaction each, while other runs do    *)
(* the same and the instrument dimension changes.                          *)
(*                                                                         *)
(* A transaction locks the article's row (update_or_create), stores the    *)
(* new content, looks the mentioned instruments up, replaces the links by  *)
(* deleting and inserting the difference to those it reads, and refreshes  *)
(* the search column.  Nothing of it is visible before the commit.         *)
(*                                                                         *)
(* The content of an article is the number of its edition; what it         *)
(* mentions is the set of tickers in its tags, title and summary.  Every   *)
(* value of Attrs stands for a ticker of its own.                          *)
(***************************************************************************)
EXTENDS InstrumentDimension, Functions, FiniteSets

CONSTANTS
    Ingests,        \* runs of ingest_news_recent that may be active together
    Articles,       \* external ids
    MaxEdition,     \* bound on the provider's editions of an article
    MaxVersions,    \* bound on versions of instruments
    MaxLost         \* bound on lost runs

ASSUME NewsAssumption == MaxEdition \in Nat /\ MaxVersions \in Nat /\ MaxLost \in Nat

VARIABLES
    feed,       \* what the provider lists: article -> edition and mentions
    news,       \* the news_newsarticle table: article -> row
    links,      \* its many-to-many table: article -> ids of instrument rows
    at,         \* where each run is
    todo,       \* the records a run has still to upsert
    art,        \* the article of the open transaction
    found,      \* ids of the instruments the transaction has looked up
    seen,       \* ids of the links it read
    lost        \* how many runs were lost

newsVars == <<news, links>>
ingestVars == <<at, todo, art, found, seen>>
vars == <<rows, feed, newsVars, ingestVars, lost>>

Edition(n, mentions) == [edition |-> n, mentions |-> mentions]
Editions == [edition: 0..MaxEdition, mentions: SUBSET Attrs]

(* The row remembers which edition each part of it was made from.          *)
ArticleRow(record) ==
    [edition |-> record.edition, mentions |-> record.mentions, indexed |-> record.edition]

NoArticles == [a \in {} |-> 0]

InTransaction(r) == at[r] \in {"stored", "linked"}

NewsInit ==
    /\ DimInit
    /\ feed = NoArticles /\ news = NoArticles
    /\ links = [a \in Articles |-> {}]
    /\ at = [r \in Ingests |-> "idle"]
    /\ todo = [r \in Ingests |-> NoArticles]
    /\ art \in [Ingests -> Articles]
    /\ found = [r \in Ingests |-> {}] /\ seen = [r \in Ingests |-> {}]
    /\ lost = 0

-----------------------------------------------------------------------------
(* A run.                                                                  *)

FetchFeed(r) ==
    /\ at[r] = "idle"
    /\ todo' = [todo EXCEPT ![r] = feed]
    /\ at' = [at EXCEPT ![r] = "loop"]
    /\ UNCHANGED <<rows, feed, newsVars, art, found, seen, lost>>

(* Mutant: the row is read without FOR UPDATE. *)
StoreWithoutWaiting(r, a) ==
    /\ at[r] = "loop" /\ a \in DOMAIN todo[r]
    /\ art' = [art EXCEPT ![r] = a]
    /\ at' = [at EXCEPT ![r] = "stored"]
    /\ UNCHANGED <<rows, feed, newsVars, todo, found, seen, lost>>

(* select_for_update().get_or_create: waits for a transaction that has the *)
(* row, or is about to insert it.                                          *)
StoreArticle(r, a) ==
    /\ at[r] = "loop" /\ a \in DOMAIN todo[r]
    /\ \A q \in Ingests : InTransaction(q) => art[q] # a
    /\ art' = [art EXCEPT ![r] = a]
    /\ at' = [at EXCEPT ![r] = "stored"]
    /\ UNCHANGED <<rows, feed, newsVars, todo, found, seen, lost>>

Record(r) == todo[r][art[r]]

Mentioned(tickers) == {i \in DOMAIN rows : rows[i].is_current /\ rows[i].attrs \in tickers}

(* Mutant: old versions of an instrument are looked up as well. *)
LookUpAnyVersion(r) ==
    /\ at[r] = "stored"
    /\ found' = [found EXCEPT ![r] = {i \in DOMAIN rows : rows[i].attrs \in Record(r).mentions}]
    /\ seen' = [seen EXCEPT ![r] = links[art[r]]]
    /\ at' = [at EXCEPT ![r] = "linked"]
    /\ UNCHANGED <<rows, feed, newsVars, todo, art, lost>>

(* Without mentions the links are not looked at.                           *)
LookUpInstruments(r) ==
    /\ at[r] = "stored"
    /\ found' = [found EXCEPT ![r] = Mentioned(Record(r).mentions)]
    /\ seen' = [seen EXCEPT ![r] = links[art[r]]]
    /\ at' = [at EXCEPT ![r] = "linked"]
    /\ UNCHANGED <<rows, feed, newsVars, todo, art, lost>>

(* instruments.set: delete what was read and is not wanted, insert what is *)
(* wanted and was not read.                                                *)
LinksSet(r) ==
    IF Record(r).mentions = {} THEN links[art[r]]
    ELSE (links[art[r]] \ (seen[r] \ found[r])) \cup (found[r] \ seen[r])

PutArticle(f, x, y) == [z \in DOMAIN f \cup {x} |-> IF z = x THEN y ELSE f[z]]

CommitArticle(r) ==
    /\ at[r] = "linked"
    /\ news' = PutArticle(news, art[r], ArticleRow(Record(r)))
    /\ links' = [links EXCEPT ![art[r]] = LinksSet(r)]
    /\ todo' = [todo EXCEPT ![r] = Restrict(@, DOMAIN @ \ {art[r]})]
    /\ found' = [found EXCEPT ![r] = {}] /\ seen' = [seen EXCEPT ![r] = {}]
    /\ at' = [at EXCEPT ![r] = "loop"]
    /\ UNCHANGED <<rows, feed, art, lost>>

(* Mutant: the run ends and leaves its transaction open. *)
EndIngestLeavesOpen(r) ==
    /\ todo' = [todo EXCEPT ![r] = NoArticles]
    /\ found' = [found EXCEPT ![r] = {}] /\ seen' = [seen EXCEPT ![r] = {}]
    /\ UNCHANGED <<rows, feed, newsVars, art, at>>

EndIngest(r) ==
    /\ at' = [at EXCEPT ![r] = "idle"]
    /\ todo' = [todo EXCEPT ![r] = NoArticles]
    /\ found' = [found EXCEPT ![r] = {}] /\ seen' = [seen EXCEPT ![r] = {}]
    /\ UNCHANGED <<rows, feed, newsVars, art>>

FinishIngest(r) ==
    /\ at[r] = "loop" /\ DOMAIN todo[r] = {}
    /\ EndIngest(r)
    /\ UNCHANGED lost

(* A lost worker or a failed statement: the open transaction rolls back,   *)
(* the articles before it stay.                                            *)
LoseIngest(r) ==
    /\ at[r] # "idle" /\ lost < MaxLost
    /\ lost' = lost + 1
    /\ EndIngest(r)

-----------------------------------------------------------------------------
(* The provider and the catalog sync.                                      *)

Publish(a) ==
    /\ a \notin DOMAIN feed /\ a \notin DOMAIN news
    /\ \E mentions \in SUBSET Attrs : feed' = PutArticle(feed, a, Edition(0, mentions))
    /\ UNCHANGED <<rows, newsVars, ingestVars, lost>>

Edit(a) ==
    /\ a \in DOMAIN feed /\ feed[a].edition < MaxEdition
    /\ \E mentions \in SUBSET Attrs :
          feed' = [feed EXCEPT ![a] = Edition(@.edition + 1, mentions)]
    /\ UNCHANGED <<rows, newsVars, ingestVars, lost>>

(* The feed is of recent articles: an old one leaves it.                   *)
Drop(a) ==
    /\ a \in DOMAIN feed \cap DOMAIN news
    /\ feed' = Restrict(feed, DOMAIN feed \ {a})
    /\ UNCHANGED <<rows, newsVars, ingestVars, lost>>

ChangeInstruments ==
    /\ Len(rows) < MaxVersions
    /\ DimNext
    /\ UNCHANGED <<feed, newsVars, ingestVars, lost>>

-----------------------------------------------------------------------------
IngestStep(r) ==
    \/ FetchFeed(r)
    \/ \E a \in Articles : StoreArticle(r, a)
    \/ LookUpInstruments(r)
    \/ CommitArticle(r)
    \/ FinishIngest(r)

NewsNext ==
    \/ \E r \in Ingests : IngestStep(r) \/ LoseIngest(r)
    \/ \E a \in Articles : Publish(a) \/ Edit(a) \/ Drop(a)
    \/ ChangeInstruments

NewsSpec == NewsInit /\ [][NewsNext]_vars

(* A run that has begun goes on; PostgreSQL hands a row lock on in turn,   *)
(* so a run that waits for one gets it.                                    *)
NewsFairSpec == NewsSpec /\ \A r \in Ingests : SF_vars(at[r] # "idle" /\ IngestStep(r))

-----------------------------------------------------------------------------
(***************************************************************************)
(* Type correctness.                                                       *)
(***************************************************************************)
NewsTypeOK ==
    /\ rows \in Seq(Row)
    /\ DOMAIN feed \subseteq Articles /\ \A a \in DOMAIN feed : feed[a] \in Editions
    /\ DOMAIN news \subseteq Articles
    /\ \A a \in DOMAIN news :
          news[a] \in [edition: 0..MaxEdition, mentions: SUBSET Attrs, indexed: 0..MaxEdition]
    /\ links \in [Articles -> SUBSET DOMAIN rows]
    /\ at \in [Ingests -> {"idle", "loop", "stored", "linked"}]
    /\ \A r \in Ingests :
          /\ DOMAIN todo[r] \subseteq Articles
          /\ \A a \in DOMAIN todo[r] : todo[r][a] \in Editions
          /\ InTransaction(r) => art[r] \in DOMAIN todo[r]
    /\ art \in [Ingests -> Articles]
    /\ found \in [Ingests -> SUBSET DOMAIN rows] /\ seen \in [Ingests -> SUBSET DOMAIN rows]
    /\ lost \in 0..MaxLost

(***************************************************************************)
(* An article's links belong to the edition that is stored: they never mix *)
(* what two runs looked up, and none survives from an earlier edition      *)
(* unless the stored one mentions nothing at all.                          *)
(***************************************************************************)
LinksMatchContent ==
    \A a \in DOMAIN news :
        news[a].mentions # {} => \A i \in links[a] : rows[i].attrs \in news[a].mentions

(***************************************************************************)
(* What is stored and linked for a is what the feed and the dimension say. *)
(***************************************************************************)
UpToDate(a) ==
    /\ a \in DOMAIN news
    /\ news[a].edition = feed[a].edition /\ news[a].indexed = feed[a].edition
    /\ feed[a].mentions # {} => links[a] = Mentioned(feed[a].mentions)

IngestsRecur == []<>(\E r \in Ingests : at[r] = "loop")

(***************************************************************************)
(* As long as runs keep being started, the articles the provider still     *)
(* lists end up in their last edition and linked to the current versions   *)
(* of exactly the instruments they mention, whatever slow or lost runs     *)
(* wrote and whichever instrument changed in between.                      *)
(***************************************************************************)
NewsConverges == IngestsRecur => <>[](\A a \in DOMAIN feed : UpToDate(a))
=============================================================================
