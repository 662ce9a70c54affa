-------------------------------- MODULE Forum --------------------------------
(***************************************************************************)
(* The community forum (forum/app.py, forum/database.py): posts, replies   *)
(* and votes in one SQLite file, which the coordinator process migrates,   *)
(* cleans and seeds when it starts, and which its handlers write.          *)
(*                                                                         *)
(* `disk' is what has been committed and `db' what the open connection     *)
(* sees.  A handler never awaits between two statements, so handlers do    *)
(* not interleave, but the process may crash, or a statement raise,        *)
(* between any two of them.  Time is counted in ticks.  Which calls the    *)
(* window of _check_rate refuses is module SlidingWindow; a refused call,  *)
(* or one with a text that is not accepted, changes nothing here.          *)
(***************************************************************************)
EXTENDS Integers, Sequences, FiniteSets

CONSTANTS
  Visitors,      \* client addresses
  Secrets,       \* values of FORUM_IP_SECRET or ADMIN_KEY
  Retention,     \* VOTE_RETENTION_DAYS, in ticks
  SeedCounts,    \* the reply_count of each post that seed_forum_db inserts
  SeedReplies,   \* the posts that its replies are to
  MaxPosts,      \* bounds the posts, ...
  MaxReplies,    \* ... the replies, ...
  MaxTime,       \* ... the clock ...
  MaxStarts      \* ... and the starts of the process in a run

ASSUME RetentionAssumption == Retention \in Nat
ASSUME MaxPostsAssumption == MaxPosts \in Nat
ASSUME SeedAssumption ==
  /\ SeedCounts \in Seq(Nat) /\ SeedCounts # <<>>
  /\ SeedReplies \in Seq(DOMAIN SeedCounts)
  /\ \A p \in DOMAIN SeedCounts :
       SeedCounts[p] = Cardinality({i \in DOMAIN SeedReplies : SeedReplies[i] = p})

VARIABLES
  disk,     \* the committed database
  db,       \* the database with the statements of the open transaction
  stage,    \* what the process is doing
  key,      \* the key of voter_id: a configured secret, or a start's own
  starts,   \* the starts so far
  clock     \* datetime('now')

vars == <<disk, db, stage, key, starts, clock>>

(***************************************************************************)
(* A text is the number of times it is HTML-escaped: stored text is to be  *)
(* plain, 0; unescaping a plain text once more damages it, -1.  A voter is *)
(* the address itself or its keyed hash.  `upvotes' counts from the number *)
(* a post was inserted with.  `cast' is a history variable: the votes that *)
(* were inserted for a post, and under which voter.                        *)
(***************************************************************************)
NoKey == <<"clear", 0>>

Clear(visitor) == [visitor |-> visitor, key |-> NoKey]

Hashed(visitor, secret) == [visitor |-> visitor, key |-> secret]

Keys == ({"secret"} \X Secrets) \cup ({"fallback"} \X Nat)

Voters == [visitor : Visitors, key : Keys \cup {NoKey}]

Vote == [post : Nat, voter : Voters, at : Nat]

Database ==
  [posts : Seq([text : Int, upvotes : Nat, replies : Nat]),
   replies : Seq([post : Nat, text : Int]),
   votes : SUBSET Vote,
   cast : SUBSET Vote,
   version : 0..2]

Stages ==
  ({"down", "unescape", "unescaped", "hash", "hashed", "purge", "seed", "seeded",
    "serving"} \X {0}) \cup ({"reply", "vote"} \X Nat)

TypeOK ==
  /\ disk \in Database
  /\ db \in Database
  /\ stage \in Stages
  /\ key \in Keys
  /\ starts \in Nat
  /\ clock \in Nat

(***************************************************************************)
(* The file may be new, or written by a version that escaped what it       *)
(* stored (user_version 0) and kept addresses (user_version 0 and 1).      *)
(***************************************************************************)
NewFile == [posts |-> <<>>, replies |-> <<>>, votes |-> {}, cast |-> {}, version |-> 0]

OldFile(version, visitor) ==
  LET text == 1 - version
      vote == [post |-> 1, voter |-> Clear(visitor), at |-> 0]
  IN [posts |-> <<[text |-> text, upvotes |-> 1, replies |-> 1]>>,
      replies |-> <<[post |-> 1, text |-> text]>>,
      votes |-> {vote}, cast |-> {vote}, version |-> version]

Init ==
  /\ disk \in {NewFile} \cup {OldFile(n, v) : n \in 0..1, v \in Visitors}
  /\ db = disk
  /\ stage = <<"down", 0>>
  /\ key = <<"fallback", 0>>
  /\ starts = 0
  /\ clock = 0

Tick ==
  /\ clock < MaxTime
  /\ clock' = clock + 1
  /\ UNCHANGED <<disk, db, stage, key, starts>>

(***************************************************************************)
(* The transaction: statements change db, commit makes them durable; a     *)
(* connection that is closed, or a process that ends, drops the rest.      *)
(***************************************************************************)
Execute(new) == db' = new /\ UNCHANGED disk

Commit(new) == db' = new /\ disk' = new

Rollback == db' = disk /\ UNCHANGED disk

Goto(from, to) ==
  /\ stage = from
  /\ stage' = to
  /\ UNCHANGED <<key, starts, clock>>

Step(from, to) == Goto(<<from, 0>>, <<to, 0>>)

(***************************************************************************)
(* The process starts with a secret, or with one of its own, and           *)
(* init_forum_db opens the file.  It may crash at any time.                *)
(***************************************************************************)
Start ==
  /\ starts < MaxStarts
  /\ stage = <<"down", 0>>
  /\ stage' = <<"unescape", 0>>
  /\ starts' = starts + 1
  /\ key' \in {<<"secret", s>> : s \in Secrets} \cup {<<"fallback", starts'>>}
  /\ UNCHANGED <<disk, db, clock>>

Crash ==
  /\ stage[1] # "down"
  /\ stage' = <<"down", 0>>
  /\ Rollback
  /\ UNCHANGED <<key, starts, clock>>

(***************************************************************************)
(* _migrate: two transactions, skipped when user_version says so.          *)
(***************************************************************************)
Unescaped(rows) == [i \in DOMAIN rows |-> [rows[i] EXCEPT !.text = @ - 1]]

PlainText ==
  [db EXCEPT !.posts = Unescaped(@), !.replies = Unescaped(@), !.version = 1]

\* A mutant: the rows are committed before user_version moves.
UnescapeInPieces ==
  \/ /\ db.version < 1
     /\ Step("unescape", "unescaped")
     /\ Commit([PlainText EXCEPT !.version = 0])
  \/ db.version >= 1 /\ Step("unescape", "hash") /\ UNCHANGED <<db, disk>>

Unescape ==
  \/ db.version < 1 /\ Step("unescape", "unescaped") /\ Execute(PlainText)
  \/ db.version >= 1 /\ Step("unescape", "hash") /\ UNCHANGED <<db, disk>>

CommitUnescaped == Step("unescaped", "hash") /\ Commit(db)

\* Rows that hold a hash already are left alone.
WithHash(vote) ==
  IF vote.voter.key = NoKey
  THEN [vote EXCEPT !.voter = Hashed(vote.voter.visitor, key)]
  ELSE vote

HashedVoters ==
  [db EXCEPT !.votes = {WithHash(v) : v \in @}, !.cast = {WithHash(v) : v \in @},
             !.version = 2]

HashVoters ==
  \/ db.version < 2 /\ Step("hash", "hashed") /\ Execute(HashedVoters)
  \/ db.version >= 2 /\ Step("hash", "purge") /\ UNCHANGED <<db, disk>>

CommitHashed == Step("hashed", "purge") /\ Commit(db)

\* A mutant: a vote is forgotten one tick early.
TooOldEarly(vote) == vote.at <= clock - Retention

(***************************************************************************)
(* purge_old_votes, the rest of init_forum_db, and seed_forum_db.          *)
(***************************************************************************)
TooOld(vote) == vote.at < clock - Retention

Purged == [db EXCEPT !.votes = {v \in @ : ~TooOld(v)}]

PurgeAtStart == Step("purge", "seed") /\ Commit(Purged)

SeedPosts ==
  [db EXCEPT !.posts = [p \in DOMAIN SeedCounts |->
                          [text |-> 0, upvotes |-> 0, replies |-> SeedCounts[p]]]]

Seed ==
  \/ db.posts = <<>> /\ Step("seed", "seeded") /\ Execute(SeedPosts)
  \/ db.posts # <<>> /\ Step("seed", "serving") /\ UNCHANGED <<db, disk>>

CommitSeeds ==
  LET seeds == [i \in DOMAIN SeedReplies |-> [post |-> SeedReplies[i], text |-> 0]] IN
  /\ Step("seeded", "serving")
  /\ Commit([db EXCEPT !.replies = @ \o seeds])

(***************************************************************************)
(* submit_post, and submit_reply: it finds the post, inserts the reply,    *)
(* then counts it in the post and commits.                                 *)
(***************************************************************************)
Serving == <<"serving", 0>>

SubmitPost ==
  /\ Len(db.posts) < MaxPosts
  /\ Goto(Serving, Serving)
  /\ Commit([db EXCEPT !.posts = Append(@, [text |-> 0, upvotes |-> 0, replies |-> 0])])

\* A mutant: the reply is committed before it is counted.
SubmitReplyAlone(p) ==
  /\ Len(db.replies) < MaxReplies
  /\ p \in DOMAIN db.posts
  /\ Goto(Serving, <<"reply", p>>)
  /\ Commit([db EXCEPT !.replies = Append(@, [post |-> p, text |-> 0])])

SubmitReply(p) ==
  /\ Len(db.replies) < MaxReplies
  /\ p \in DOMAIN db.posts
  /\ Goto(Serving, <<"reply", p>>)
  /\ Execute([db EXCEPT !.replies = Append(@, [post |-> p, text |-> 0])])

CountReply(p) ==
  /\ Goto(<<"reply", p>>, Serving)
  /\ Commit([db EXCEPT !.posts[p].replies = @ + 1])

(***************************************************************************)
(* upvote: it purges and commits, looks for a vote of this voter on this   *)
(* post, which need not exist, and if there is none inserts one, counts it *)
(* in the post, and commits.                                               *)
(***************************************************************************)
HasVoted(p, voter) == \E v \in Purged.votes : v.post = p /\ v.voter = voter

WithVote(vote) ==
  [Purged EXCEPT !.votes = @ \cup {vote},
                 !.cast = IF vote.post \in DOMAIN db.posts THEN @ \cup {vote} ELSE @]

Upvote(visitor, p) ==
  LET voter == Hashed(visitor, key) IN
  /\ disk' = Purged
  /\ \/ /\ HasVoted(p, voter)
        /\ Goto(Serving, Serving)
        /\ db' = Purged
     \/ /\ ~HasVoted(p, voter)
        /\ Goto(Serving, <<"vote", p>>)
        /\ db' = WithVote([post |-> p, voter |-> voter, at |-> clock])

CountVote(p) ==
  /\ Goto(<<"vote", p>>, Serving)
  /\ Commit(IF p \in DOMAIN db.posts
              THEN [db EXCEPT !.posts[p].upvotes = @ + 1] ELSE db)

\* A statement of submit_reply or upvote raises.  upvote catches the error and
\* closes the connection, submit_reply leaves it to be collected: in either case
\* the transaction is never committed.
StatementRaises(p) ==
  /\ Goto(<<"reply", p>>, Serving) \/ Goto(<<"vote", p>>, Serving)
  /\ Rollback

Next ==
  \/ Tick \/ Start \/ Crash
  \/ Unescape \/ CommitUnescaped \/ HashVoters \/ CommitHashed
  \/ PurgeAtStart \/ Seed \/ CommitSeeds
  \/ SubmitPost
  \/ \E p \in 1..MaxPosts :
       \/ SubmitReply(p) \/ CountReply(p) \/ CountVote(p) \/ StatementRaises(p)
       \/ \E visitor \in Visitors : Upvote(visitor, p)

Spec == Init /\ [][Next]_vars

(***************************************************************************)
(* A visitor's second vote on a post counts only after Retention, across   *)
(* crashes, the migration and the purge, as long as the key is the same    *)
(* ("One vote per visitor and post is enforced for this long").            *)
(***************************************************************************)
OneVotePerVisitor ==
  \A c, d \in disk.cast :
    c # d /\ c.post = d.post /\ c.voter = d.voter =>
      c.at - d.at > Retention \/ d.at - c.at > Retention

(***************************************************************************)
(* What is durable agrees: the score of a post is the number of votes that *)
(* were cast for it and its reply_count is the number of its replies,      *)
(* wherever the process crashed or a statement raised.                     *)
(***************************************************************************)
RepliesOf(d, p) == {i \in DOMAIN d.replies : d.replies[i].post = p}

VotesFor(d, p) == {c \in d.cast : c.post = p}

CountersMatchRows ==
  \A p \in DOMAIN disk.posts :
    /\ disk.posts[p].upvotes = Cardinality(VotesFor(disk, p))
    /\ disk.posts[p].replies = Cardinality(RepliesOf(disk, p))

(***************************************************************************)
(* A forum that serves has plain texts, unescaped exactly as often as they *)
(* had been escaped, and no address in its votes, wherever an earlier      *)
(* start was interrupted.                                                  *)
(***************************************************************************)
ServesMigratedData ==
  stage[1] \in {"serving", "reply", "vote"} =>
    /\ \A p \in DOMAIN disk.posts : disk.posts[p].text = 0
    /\ \A i \in DOMAIN disk.replies : disk.replies[i].text = 0
    /\ \A v \in disk.votes : v.voter.key # NoKey
==============================================================================
