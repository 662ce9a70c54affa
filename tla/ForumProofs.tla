----------------------------- MODULE ForumProofs -----------------------------
(***************************************************************************)
(* What Forum promises for every set of visitors and secrets, retention,   *)
(* seed data and number of crashes.  The invariant says what holds of a    *)
(* committed database at any time, and, for each stage of the process, how *)
(* far the open transaction is ahead of it.                                *)
(***************************************************************************)
EXTENDS Forum, FiniteSetTheorems, TLAPS

Post == [text : Int, upvotes : Nat, replies : Nat]

Reply == [post : Nat, text : Int]

(***************************************************************************)
(* The parts of the invariant of a database.  Migrated: texts are escaped  *)
(* and voters are clear exactly as user_version says.  Linked: rows are of *)
(* posts that exist.  Dated: a vote that was cast within Retention is      *)
(* still there, and two of one voter are apart.                            *)
(***************************************************************************)
Migrated(d) ==
  /\ \A p \in DOMAIN d.posts : d.posts[p].text = IF d.version = 0 THEN 1 ELSE 0
  /\ \A i \in DOMAIN d.replies : d.replies[i].text = IF d.version = 0 THEN 1 ELSE 0
  /\ \A v \in d.votes \cup d.cast : v.voter.key = NoKey <=> d.version < 2

Linked(d) ==
  /\ \A i \in DOMAIN d.replies : d.replies[i].post \in DOMAIN d.posts
  /\ \A c \in d.cast : c.post \in DOMAIN d.posts
  /\ IsFiniteSet(d.cast)

Dated(d, now) ==
  /\ \A c \in d.cast : c.at <= now
  /\ \A c \in d.cast : c.at >= now - Retention => c \in d.votes
  /\ \A c, e \in d.cast :
       c # e /\ c.post = e.post /\ c.voter = e.voter =>
         c.at - e.at > Retention \/ e.at - c.at > Retention

Counted(d) ==
  \A p \in DOMAIN d.posts :
    /\ d.posts[p].upvotes = Cardinality(VotesFor(d, p))
    /\ d.posts[p].replies = Cardinality(RepliesOf(d, p))

Sound(d, now) ==
  d \in Database /\ Migrated(d) /\ Linked(d) /\ Dated(d, now) /\ Counted(d)

(***************************************************************************)
(* The open transaction.                                                   *)
(***************************************************************************)
WithReply(d, p) == [d EXCEPT !.replies = Append(@, [post |-> p, text |-> 0])]

WithCast(d, vote) ==
  [d EXCEPT !.votes = @ \cup {vote},
            !.cast = IF vote.post \in DOMAIN d.posts THEN @ \cup {vote} ELSE @]

Fits(vote, p) == vote \in Vote /\ vote.post = p /\ vote.voter.key # NoKey

Fresh(vote, d, now) ==
  /\ vote.at <= now
  /\ \A c \in d.cast :
       c.post = vote.post /\ c.voter = vote.voter => vote.at - c.at > Retention

Seeded(d) ==
  [d EXCEPT !.posts = [p \in DOMAIN SeedCounts |->
                         [text |-> 0, upvotes |-> 0, replies |-> SeedCounts[p]]]]

AtStage ==
  \/ /\ stage[1] \in {"down", "unescape"}
     /\ db = disk
  \/ /\ stage[1] = "unescaped"
     /\ Sound(db, clock) /\ db.version = 1
  \/ /\ stage[1] = "hash"
     /\ db = disk /\ db.version >= 1
  \/ /\ stage[1] = "hashed"
     /\ Sound(db, clock) /\ db.version = 2
  \/ /\ stage[1] \in {"purge", "seed", "serving"}
     /\ db = disk /\ db.version = 2
  \/ /\ stage[1] = "seeded"
     /\ db = Seeded(disk) /\ disk.posts = <<>> /\ disk.version = 2
  \/ /\ stage[1] = "reply"
     /\ stage[2] \in DOMAIN disk.posts
     /\ db = WithReply(disk, stage[2]) /\ disk.version = 2
  \/ /\ stage[1] = "vote"
     /\ disk.version = 2
     /\ \E vote \in Vote :
          /\ Fits(vote, stage[2])
          /\ Fresh(vote, disk, clock)
          /\ db = WithCast(disk, vote)

Inv ==
  /\ stage \in Stages
  /\ key \in Keys
  /\ starts \in Nat
  /\ clock \in Nat
  /\ Sound(disk, clock)
  /\ AtStage

(***************************************************************************)
(* The fields of a database, and of one with other fields.                 *)
(***************************************************************************)
LEMMA Fields ==
  ASSUME NEW d \in Database
  PROVE  /\ d.posts \in Seq(Post)
         /\ d.replies \in Seq(Reply)
         /\ d.votes \in SUBSET Vote
         /\ d.cast \in SUBSET Vote
         /\ d.version \in 0..2
  BY DEF Database, Post, Reply

NewPosts(d, P) == [d EXCEPT !.posts = P]

NewReplies(d, R) == [d EXCEPT !.replies = R]

NewTexts(d, P, R, n) == [d EXCEPT !.posts = P, !.replies = R, !.version = n]

NewVotes(d, V) == [d EXCEPT !.votes = V]

NewCast(d, V, C) == [d EXCEPT !.votes = V, !.cast = C]

NewVoters(d, V, C, n) == [d EXCEPT !.votes = V, !.cast = C, !.version = n]

LEMMA NewPostsFields ==
  ASSUME NEW d \in Database, NEW P \in Seq(Post)
  PROVE  LET e == NewPosts(d, P) IN
         /\ e \in Database /\ e.posts = P
         /\ e.replies = d.replies /\ e.votes = d.votes /\ e.cast = d.cast
         /\ e.version = d.version
  BY DEF Database, Post, Reply, NewPosts

LEMMA NewRepliesFields ==
  ASSUME NEW d \in Database, NEW R \in Seq(Reply)
  PROVE  LET e == NewReplies(d, R) IN
         /\ e \in Database /\ e.replies = R
         /\ e.posts = d.posts /\ e.votes = d.votes /\ e.cast = d.cast
         /\ e.version = d.version
  BY DEF Database, Post, Reply, NewReplies

LEMMA NewTextsFields ==
  ASSUME NEW d \in Database, NEW P \in Seq(Post), NEW R \in Seq(Reply), NEW n \in 0..2
  PROVE  LET e == NewTexts(d, P, R, n) IN
         /\ e \in Database /\ e.posts = P /\ e.replies = R /\ e.version = n
         /\ e.votes = d.votes /\ e.cast = d.cast
  BY DEF Database, Post, Reply, NewTexts

LEMMA NewVotesFields ==
  ASSUME NEW d \in Database, NEW V \in SUBSET Vote
  PROVE  LET e == NewVotes(d, V) IN
         /\ e \in Database /\ e.votes = V
         /\ e.posts = d.posts /\ e.replies = d.replies /\ e.cast = d.cast
         /\ e.version = d.version
  BY DEF Database, NewVotes

LEMMA NewCastFields ==
  ASSUME NEW d \in Database, NEW V \in SUBSET Vote, NEW C \in SUBSET Vote
  PROVE  LET e == NewCast(d, V, C) IN
         /\ e \in Database /\ e.votes = V /\ e.cast = C
         /\ e.posts = d.posts /\ e.replies = d.replies /\ e.version = d.version
  BY DEF Database, NewCast

LEMMA NewVotersFields ==
  ASSUME NEW d \in Database, NEW V \in SUBSET Vote, NEW C \in SUBSET Vote,
         NEW n \in 0..2
  PROVE  LET e == NewVoters(d, V, C, n) IN
         /\ e \in Database /\ e.votes = V /\ e.cast = C /\ e.version = n
         /\ e.posts = d.posts /\ e.replies = d.replies
  BY DEF Database, NewVoters

LEMMA VoteFields ==
  ASSUME NEW v \in Vote
  PROVE  /\ v.post \in Nat /\ v.at \in Nat /\ v.voter \in Voters
         /\ v = [post |-> v.post, voter |-> v.voter, at |-> v.at]
         /\ v.voter.visitor \in Visitors /\ v.voter.key \in Keys \cup {NoKey}
         /\ v.voter = [visitor |-> v.voter.visitor, key |-> v.voter.key]
  BY DEF Vote, Voters

LEMMA KeysAreNotClear == NoKey \notin Keys
  BY DEF NoKey, Keys

(***************************************************************************)
(* What the counts are of: finite sets, one element larger for one more    *)
(* vote or reply.                                                          *)
(***************************************************************************)
LEMMA RepliesFinite ==
  ASSUME NEW d \in Database, NEW p
  PROVE  IsFiniteSet(RepliesOf(d, p))
<1>1. Len(d.replies) \in Nat /\ DOMAIN d.replies = 1..Len(d.replies)
  BY Fields
<1>2. IsFiniteSet(1..Len(d.replies))
  BY <1>1, FS_Interval
<1> QED
  BY <1>1, <1>2, FS_Subset DEF RepliesOf

LEMMA VotesFinite ==
  ASSUME NEW d, NEW p, IsFiniteSet(d.cast)
  PROVE  IsFiniteSet(VotesFor(d, p))
<1>1. VotesFor(d, p) \in SUBSET d.cast
  BY DEF VotesFor
<1> QED
  BY <1>1, FS_Subset

(***************************************************************************)
(* Time that passes.                                                       *)
(***************************************************************************)
LEMMA SoundLater ==
  ASSUME NEW d, NEW now \in Nat, Sound(d, now)
  PROVE  Sound(d, now + 1)
<1>1. \A c \in d.cast : c.at \in Nat
  BY Fields, VoteFields DEF Sound
<1> QED
  BY <1>1, RetentionAssumption DEF Sound, Dated

(***************************************************************************)
(* The migration: unescaping keeps all but the texts, ...                  *)
(***************************************************************************)
LEMMA OnePost ==
  ASSUME NEW r \in Post
  PROVE  LET n == [r EXCEPT !.text = @ - 1] IN
         /\ n \in Post
         /\ n.text = r.text - 1 /\ n.upvotes = r.upvotes /\ n.replies = r.replies
  BY DEF Post

LEMMA OneReply ==
  ASSUME NEW r \in Reply
  PROVE  LET n == [r EXCEPT !.text = @ - 1] IN
         n \in Reply /\ n.text = r.text - 1 /\ n.post = r.post
  BY DEF Reply

LEMMA UnescapedPosts ==
  ASSUME NEW rows \in Seq(Post)
  PROVE  /\ Unescaped(rows) \in Seq(Post)
         /\ DOMAIN Unescaped(rows) = DOMAIN rows
         /\ \A i \in DOMAIN rows :
              /\ Unescaped(rows)[i].text = rows[i].text - 1
              /\ Unescaped(rows)[i].upvotes = rows[i].upvotes
              /\ Unescaped(rows)[i].replies = rows[i].replies
<1>1. \A i \in DOMAIN rows : rows[i] \in Post
  OBVIOUS
<1>2. /\ DOMAIN Unescaped(rows) = DOMAIN rows
      /\ \A i \in DOMAIN rows : Unescaped(rows)[i] = [rows[i] EXCEPT !.text = @ - 1]
  BY DEF Unescaped
<1>3. \A i \in DOMAIN rows : Unescaped(rows)[i] \in Post
  BY <1>1, <1>2, OnePost
<1>4. Unescaped(rows) \in Seq(Post)
  BY <1>3 DEF Unescaped
<1> QED
  BY <1>1, <1>2, <1>4, OnePost

LEMMA UnescapedReplies ==
  ASSUME NEW rows \in Seq(Reply)
  PROVE  /\ Unescaped(rows) \in Seq(Reply)
         /\ DOMAIN Unescaped(rows) = DOMAIN rows
         /\ \A i \in DOMAIN rows :
              /\ Unescaped(rows)[i].text = rows[i].text - 1
              /\ Unescaped(rows)[i].post = rows[i].post
<1>1. \A i \in DOMAIN rows : rows[i] \in Reply
  OBVIOUS
<1>2. /\ DOMAIN Unescaped(rows) = DOMAIN rows
      /\ \A i \in DOMAIN rows : Unescaped(rows)[i] = [rows[i] EXCEPT !.text = @ - 1]
  BY DEF Unescaped
<1>3. \A i \in DOMAIN rows : Unescaped(rows)[i] \in Reply
  BY <1>1, <1>2, OneReply
<1>4. Unescaped(rows) \in Seq(Reply)
  BY <1>3 DEF Unescaped
<1> QED
  BY <1>1, <1>2, <1>4, OneReply

LEMMA PlainTextFields ==
  ASSUME db \in Database,
         Unescaped(db.posts) \in Seq(Post), Unescaped(db.replies) \in Seq(Reply)
  PROVE  /\ PlainText \in Database
         /\ PlainText.posts = Unescaped(db.posts)
         /\ PlainText.replies = Unescaped(db.replies)
         /\ PlainText.votes = db.votes /\ PlainText.cast = db.cast
         /\ PlainText.version = 1
<1>1. PlainText = NewTexts(db, Unescaped(db.posts), Unescaped(db.replies), 1)
  BY DEF PlainText, NewTexts
<1> QED
  BY <1>1, NewTextsFields

LEMMA UnescapedSound ==
  ASSUME NEW now \in Nat, Sound(db, now), db.version = 0
  PROVE  Sound(PlainText, now) /\ PlainText.version = 1
<1> DEFINE e == PlainText
<1>1. db \in Database /\ db.posts \in Seq(Post) /\ db.replies \in Seq(Reply)
  BY Fields DEF Sound
<1>2. Unescaped(db.posts) \in Seq(Post) /\ Unescaped(db.replies) \in Seq(Reply)
  BY <1>1, UnescapedPosts, UnescapedReplies
<1>3. /\ e \in Database
      /\ e.posts = Unescaped(db.posts) /\ e.replies = Unescaped(db.replies)
      /\ e.votes = db.votes /\ e.cast = db.cast /\ e.version = 1
  BY <1>1, <1>2, PlainTextFields
<1> HIDE DEF e
<1>4. /\ DOMAIN e.posts = DOMAIN db.posts
      /\ \A p \in DOMAIN db.posts :
           /\ e.posts[p].text = db.posts[p].text - 1
           /\ e.posts[p].upvotes = db.posts[p].upvotes
           /\ e.posts[p].replies = db.posts[p].replies
  BY <1>1, <1>3, UnescapedPosts
<1>5. /\ DOMAIN e.replies = DOMAIN db.replies
      /\ \A i \in DOMAIN db.replies :
           /\ e.replies[i].text = db.replies[i].text - 1
           /\ e.replies[i].post = db.replies[i].post
  BY <1>1, <1>3, UnescapedReplies
<1>6. Migrated(e)
  BY <1>3, <1>4, <1>5 DEF Sound, Migrated
<1>7. Linked(e)
  BY <1>3, <1>4, <1>5 DEF Sound, Linked
<1>8. Dated(e, now)
  BY <1>3 DEF Sound, Dated
<1>9. Counted(e)
  <2>1. ASSUME NEW p PROVE VotesFor(e, p) = VotesFor(db, p)
    BY <1>3 DEF VotesFor
  <2>2. ASSUME NEW p PROVE RepliesOf(e, p) = RepliesOf(db, p)
    BY <1>5 DEF RepliesOf
  <2> QED
    BY <1>4, <2>1, <2>2 DEF Sound, Counted
<1> QED
  BY <1>3, <1>6, <1>7, <1>8, <1>9 DEF Sound, e

(***************************************************************************)
(* ... hashing the voters maps clear votes to different hashed ones, ...   *)
(***************************************************************************)
LEMMA WithHashOfClear ==
  ASSUME key \in Keys, NEW v \in Vote, v.voter.key = NoKey
  PROVE  /\ WithHash(v) \in Vote
         /\ WithHash(v).post = v.post /\ WithHash(v).at = v.at
         /\ WithHash(v).voter.visitor = v.voter.visitor
         /\ WithHash(v).voter.key = key
<1>1. WithHash(v) = [v EXCEPT !.voter = Hashed(v.voter.visitor, key)]
  BY DEF WithHash
<1>2. Hashed(v.voter.visitor, key) \in Voters
  BY VoteFields DEF Hashed, Voters
<1> QED
  BY <1>1, <1>2 DEF Vote, Hashed

LEMMA WithHashInjective ==
  ASSUME key \in Keys, NEW v \in Vote, NEW w \in Vote,
         v.voter.key = NoKey, w.voter.key = NoKey, WithHash(v) = WithHash(w)
  PROVE  v = w
<1>1. v.post = w.post /\ v.at = w.at /\ v.voter.visitor = w.voter.visitor
  BY WithHashOfClear
<1>2. v.voter = w.voter
  BY <1>1, VoteFields
<1> QED
  BY <1>1, <1>2, VoteFields

LEMMA HashedSound ==
  ASSUME NEW now \in Nat, Sound(db, now), db.version = 1, key \in Keys
  PROVE  Sound(HashedVoters, now) /\ HashedVoters.version = 2
<1> DEFINE e == HashedVoters
<1>1. /\ db \in Database
      /\ db.posts \in Seq(Post) /\ db.replies \in Seq(Reply)
      /\ db.votes \in SUBSET Vote /\ db.cast \in SUBSET Vote
      /\ \A v \in db.votes \cup db.cast : v \in Vote /\ v.voter.key = NoKey
  BY Fields DEF Sound, Migrated
<1>2. /\ {WithHash(v) : v \in db.votes} \in SUBSET Vote
      /\ {WithHash(v) : v \in db.cast} \in SUBSET Vote
  BY <1>1, WithHashOfClear
<1>3. /\ e \in Database
      /\ e.posts = db.posts /\ e.replies = db.replies /\ e.version = 2
      /\ e.votes = {WithHash(v) : v \in db.votes}
      /\ e.cast = {WithHash(v) : v \in db.cast}
  <2>1. e = NewVoters(db, {WithHash(v) : v \in db.votes},
                          {WithHash(v) : v \in db.cast}, 2)
    BY DEF HashedVoters, NewVoters
  <2> HIDE DEF e
  <2> QED
    BY <1>1, <1>2, <2>1, NewVotersFields
<1> HIDE DEF e
<1>4. Migrated(e)
  <2>1. \A v \in e.votes \cup e.cast : v.voter.key = key
    BY <1>1, <1>3, WithHashOfClear
  <2>2. \A v \in e.votes \cup e.cast : v.voter.key # NoKey
    BY <2>1, KeysAreNotClear
  <2> QED
    BY <1>3, <2>2 DEF Sound, Migrated
<1>5. ASSUME NEW V \in SUBSET db.cast, NEW W \in SUBSET e.cast,
             \A v \in V : WithHash(v) \in W, \A w \in W : \E v \in V : w = WithHash(v)
      PROVE  IsFiniteSet(W) /\ Cardinality(W) = Cardinality(V)
  <2> DEFINE f == [v \in V |-> WithHash(v)]
  <2>1. \A v \in V : v \in Vote /\ v.voter.key = NoKey
    BY <1>1
  <2>2. f \in [V -> W]
    BY <1>5
  <2>3. \A v, w \in V : f[v] = f[w] => v = w
    BY <2>1, WithHashInjective
  <2>4. \A w \in W : \E v \in V : f[v] = w
    BY <1>5
  <2>5. ExistsBijection(V, W)
    BY <2>2, <2>3, <2>4, Zenon
       DEF ExistsBijection, Bijection, Injection, Surjection, IsInjective
  <2>6. IsFiniteSet(V)
    BY FS_Subset DEF Sound, Linked
  <2> QED
    BY <2>5, <2>6, FS_Bijection
<1>6. IsFiniteSet(e.cast)
  BY <1>3, <1>5
<1>7. Linked(e)
  BY <1>1, <1>3, <1>6, WithHashOfClear DEF Sound, Linked
<1>8. Dated(e, now)
  <2>1. \A c \in e.cast : \E v \in db.cast :
          c = WithHash(v) /\ c.at = v.at /\ c.post = v.post
            /\ c.voter.visitor = v.voter.visitor
    BY <1>1, <1>3, WithHashOfClear
  <2>2. \A c \in e.cast : c.at <= now
    BY <2>1 DEF Sound, Dated
  <2>3. \A c \in e.cast : c.at >= now - Retention => c \in e.votes
    BY <1>3, <2>1 DEF Sound, Dated
  <2>4. ASSUME NEW c \in e.cast, NEW x \in e.cast, c # x, c.post = x.post,
               c.voter = x.voter
        PROVE  c.at - x.at > Retention \/ x.at - c.at > Retention
    <3>1. PICK v \in db.cast : c = WithHash(v) /\ c.at = v.at /\ c.post = v.post
                                 /\ c.voter.visitor = v.voter.visitor
      BY <2>1
    <3>2. PICK w \in db.cast : x = WithHash(w) /\ x.at = w.at /\ x.post = w.post
                                 /\ x.voter.visitor = w.voter.visitor
      BY <2>1
    <3>3. v # w /\ v.post = w.post
      BY <2>4, <3>1, <3>2
    <3>4. v.voter = w.voter
      <4>1. v.voter.visitor = w.voter.visitor
        BY <2>4, <3>1, <3>2
      <4>2. v.voter.key = NoKey /\ w.voter.key = NoKey /\ v \in Vote /\ w \in Vote
        BY <1>1
      <4> QED
        BY <4>1, <4>2, VoteFields
    <3> QED
      BY <3>1, <3>2, <3>3, <3>4 DEF Sound, Dated
  <2> QED
    BY <2>2, <2>3, <2>4 DEF Dated
<1>9. Counted(e)
  <2>1. ASSUME NEW p
        PROVE  Cardinality(VotesFor(e, p)) = Cardinality(VotesFor(db, p))
    <3>1. VotesFor(db, p) \in SUBSET db.cast /\ VotesFor(e, p) \in SUBSET e.cast
      BY DEF VotesFor
    <3>2. \A v \in VotesFor(db, p) : WithHash(v) \in VotesFor(e, p)
      BY <1>1, <1>3, WithHashOfClear DEF VotesFor
    <3>3. \A w \in VotesFor(e, p) : \E v \in VotesFor(db, p) : w = WithHash(v)
      BY <1>1, <1>3, WithHashOfClear DEF VotesFor
    <3> QED
      BY <1>5, <3>1, <3>2, <3>3
  <2>2. ASSUME NEW p PROVE RepliesOf(e, p) = RepliesOf(db, p)
    BY <1>3 DEF RepliesOf
  <2> QED
    BY <1>3, <2>1, <2>2 DEF Sound, Counted
<1> QED
  BY <1>3, <1>4, <1>7, <1>8, <1>9 DEF Sound, e

(***************************************************************************)
(* ... and the purge forgets only votes that nothing depends on.           *)
(***************************************************************************)
LEMMA PurgedSound ==
  ASSUME Sound(db, clock), clock \in Nat
  PROVE  /\ Sound(Purged, clock)
         /\ Purged.version = db.version /\ Purged.posts = db.posts
         /\ Purged.cast = db.cast
         /\ Purged.votes = {v \in db.votes : ~TooOld(v)}
<1> DEFINE e == Purged
<1>1. db \in Database /\ db.votes \in SUBSET Vote /\ db.cast \in SUBSET Vote
  BY Fields DEF Sound
<1>2. {v \in db.votes : ~TooOld(v)} \in SUBSET Vote
  BY <1>1
<1>3. /\ e \in Database
      /\ e.posts = db.posts /\ e.replies = db.replies /\ e.cast = db.cast
      /\ e.version = db.version
      /\ e.votes = {v \in db.votes : ~TooOld(v)}
  <2>1. e = NewVotes(db, {v \in db.votes : ~TooOld(v)})
    BY DEF Purged, NewVotes
  <2> HIDE DEF e
  <2> QED
    BY <1>1, <1>2, <2>1, NewVotesFields
<1> HIDE DEF e
<1>4. Migrated(e) /\ Linked(e)
  BY <1>3 DEF Sound, Migrated, Linked
<1>5. Dated(e, clock)
  <2>1. \A c \in e.cast : c.at >= clock - Retention => c \in e.votes
    <3> SUFFICES ASSUME NEW c \in e.cast, c.at >= clock - Retention
                 PROVE  c \in e.votes
      OBVIOUS
    <3>1. c.at \in Nat
      BY <1>1, <1>3, VoteFields
    <3>2. c \in db.votes
      BY <1>3 DEF Sound, Dated
    <3>3. ~TooOld(c)
      BY <3>1, RetentionAssumption DEF TooOld
    <3> QED
      BY <1>3, <3>2, <3>3
  <2> QED
    BY <1>3, <2>1 DEF Sound, Dated
<1>6. Counted(e)
  <2>1. ASSUME NEW p
        PROVE  VotesFor(e, p) = VotesFor(db, p) /\ RepliesOf(e, p) = RepliesOf(db, p)
    BY <1>3 DEF VotesFor, RepliesOf
  <2> QED
    BY <1>3, <2>1 DEF Sound, Counted
<1> QED
  BY <1>3, <1>4, <1>5, <1>6 DEF Sound, e

(***************************************************************************)
(* The seed posts are inserted into an empty database, and the counts they *)
(* come with are those of the seed replies.                                *)
(***************************************************************************)
LEMMA SeededFields ==
  ASSUME NEW d \in Database
  PROVE  LET e == Seeded(d) IN
         /\ e \in Database
         /\ DOMAIN e.posts = DOMAIN SeedCounts
         /\ \A p \in DOMAIN SeedCounts :
              /\ e.posts[p].text = 0 /\ e.posts[p].upvotes = 0
              /\ e.posts[p].replies = SeedCounts[p]
         /\ e.replies = d.replies /\ e.votes = d.votes /\ e.cast = d.cast
         /\ e.version = d.version
<1> DEFINE P == [p \in DOMAIN SeedCounts |->
                   [text |-> 0, upvotes |-> 0, replies |-> SeedCounts[p]]]
<1>1. P \in Seq(Post)
  <2>1. SeedCounts \in Seq(Nat)
    BY SeedAssumption
  <2>2. \A p \in DOMAIN SeedCounts : SeedCounts[p] \in Nat
    BY <2>1
  <2>3. \A p \in DOMAIN SeedCounts :
          [text |-> 0, upvotes |-> 0, replies |-> SeedCounts[p]] \in Post
    BY <2>2 DEF Post
  <2> QED
    BY <2>1, <2>3
<1>2. Seeded(d) = NewPosts(d, P)
  BY DEF Seeded, NewPosts
<1>3. /\ DOMAIN P = DOMAIN SeedCounts
      /\ \A p \in DOMAIN SeedCounts :
           P[p].text = 0 /\ P[p].upvotes = 0 /\ P[p].replies = SeedCounts[p]
  OBVIOUS
<1> HIDE DEF P
<1> QED
  BY <1>1, <1>2, <1>3, NewPostsFields

LEMMA SeedRows ==
  /\ \A i \in DOMAIN SeedReplies : SeedReplies[i] \in DOMAIN SeedCounts
  /\ LET seeds == [i \in DOMAIN SeedReplies |-> [post |-> SeedReplies[i], text |-> 0]] IN
       /\ seeds \in Seq(Reply)
       /\ DOMAIN seeds = DOMAIN SeedReplies
       /\ \A i \in DOMAIN seeds : seeds[i].post = SeedReplies[i] /\ seeds[i].text = 0
<1> DEFINE seeds == [i \in DOMAIN SeedReplies |-> [post |-> SeedReplies[i], text |-> 0]]
<1>1. SeedReplies \in Seq(DOMAIN SeedCounts) /\ SeedCounts \in Seq(Nat)
  BY SeedAssumption
<1>2. /\ DOMAIN SeedReplies = 1..Len(SeedReplies) /\ Len(SeedReplies) \in Nat
      /\ \A i \in DOMAIN SeedReplies : SeedReplies[i] \in DOMAIN SeedCounts
  BY <1>1
<1>3. \A i \in DOMAIN SeedReplies : SeedReplies[i] \in Nat
  BY <1>1, <1>2
<1>4. \A i \in 1..Len(SeedReplies) : [post |-> SeedReplies[i], text |-> 0] \in Reply
  BY <1>2, <1>3 DEF Reply
<1>5. seeds \in Seq(Reply)
  BY <1>2, <1>4
<1>6. /\ DOMAIN seeds = DOMAIN SeedReplies
      /\ \A i \in DOMAIN seeds : seeds[i].post = SeedReplies[i] /\ seeds[i].text = 0
  OBVIOUS
<1> QED
  BY <1>2, <1>5, <1>6

LEMMA EmptySequence ==
  ASSUME NEW S, NEW s \in Seq(S), DOMAIN s = {}
  PROVE  s = <<>>
<1>1. Len(s) \in Nat /\ DOMAIN s = 1..Len(s)
  OBVIOUS
<1>2. Len(s) = 0
  <2>1. CASE Len(s) > 0
    <3>1. 1 \in 1..Len(s)
      BY <1>1, <2>1
    <3> QED
      BY <1>1, <3>1
  <2> QED
    BY <1>1, <2>1
<1> QED
  BY <1>2

LEMMA SeedsSound ==
  ASSUME Sound(disk, clock), disk.version = 2, disk.posts = <<>>, db = Seeded(disk),
         NEW seeds,
         seeds = [i \in DOMAIN SeedReplies |-> [post |-> SeedReplies[i], text |-> 0]],
         NEW e, e = NewReplies(db, db.replies \o seeds)
  PROVE  Sound(e, clock) /\ e.version = 2
<1>1. /\ disk \in Database /\ disk.replies \in Seq(Reply)
      /\ \A i \in DOMAIN disk.replies : disk.replies[i].post \in DOMAIN disk.posts
      /\ \A c \in disk.cast : c.post \in DOMAIN disk.posts
  BY Fields DEF Sound, Linked
<1>2. DOMAIN disk.posts = {}
  OBVIOUS
<1>3. disk.cast = {} /\ disk.replies = <<>>
  <2>1. disk.cast = {}
    BY <1>1, <1>2
  <2>2. DOMAIN disk.replies = {}
    BY <1>1, <1>2
  <2> QED
    BY <1>1, <2>1, <2>2, EmptySequence
<1>4. /\ db \in Database /\ db.replies = <<>> /\ db.cast = {} /\ db.version = 2
      /\ db.votes = disk.votes
      /\ DOMAIN db.posts = DOMAIN SeedCounts
      /\ \A p \in DOMAIN SeedCounts :
           /\ db.posts[p].text = 0 /\ db.posts[p].upvotes = 0
           /\ db.posts[p].replies = SeedCounts[p]
  BY <1>1, <1>3, SeededFields
<1>5. /\ seeds \in Seq(Reply)
      /\ DOMAIN seeds = DOMAIN SeedReplies
      /\ \A i \in DOMAIN seeds : seeds[i].post = SeedReplies[i] /\ seeds[i].text = 0
  BY SeedRows
<1>6. db.replies \o seeds = seeds
  BY <1>4, <1>5
<1>7. /\ e \in Database /\ e.replies = seeds /\ e.cast = {} /\ e.version = 2
      /\ e.posts = db.posts /\ e.votes = disk.votes
  BY <1>4, <1>5, <1>6, NewRepliesFields
<1>8. Migrated(e)
  BY <1>3, <1>4, <1>5, <1>7 DEF Sound, Migrated
<1>9. Linked(e)
  <2>1. \A i \in DOMAIN e.replies : e.replies[i].post \in DOMAIN e.posts
    BY <1>4, <1>5, <1>7, SeedRows
  <2>2. IsFiniteSet(e.cast)
    BY <1>7, FS_EmptySet
  <2> QED
    BY <1>7, <2>1, <2>2 DEF Linked
<1>10. Dated(e, clock)
  BY <1>7 DEF Dated
<1>11. Counted(e)
  <2> SUFFICES ASSUME NEW p \in DOMAIN e.posts
               PROVE  /\ e.posts[p].upvotes = Cardinality(VotesFor(e, p))
                      /\ e.posts[p].replies = Cardinality(RepliesOf(e, p))
    BY DEF Counted
  <2>1. VotesFor(e, p) = {}
    BY <1>7 DEF VotesFor
  <2>2. RepliesOf(e, p) = {i \in DOMAIN SeedReplies : SeedReplies[i] = p}
    BY <1>5, <1>7 DEF RepliesOf
  <2>3. p \in DOMAIN SeedCounts
    BY <1>4, <1>7
  <2>4. SeedCounts[p] = Cardinality(RepliesOf(e, p))
    BY <2>2, <2>3, SeedAssumption
  <2>5. e.posts[p].replies = SeedCounts[p] /\ e.posts[p].upvotes = 0
    BY <1>4, <1>7, <2>3
  <2> QED
    BY <2>1, <2>4, <2>5, FS_EmptySet
<1> QED
  BY <1>7, <1>8, <1>9, <1>10, <1>11 DEF Sound

(***************************************************************************)
(* The handlers.  A row that is appended is the last, and the others keep  *)
(* their places.                                                           *)
(***************************************************************************)
LEMMA Appended ==
  ASSUME NEW S, NEW s \in Seq(S), NEW x \in S
  PROVE  LET n == Len(s) + 1 IN
         /\ Append(s, x) \in Seq(S)
         /\ n \notin DOMAIN s
         /\ DOMAIN Append(s, x) = DOMAIN s \cup {n}
         /\ Append(s, x)[n] = x
         /\ \A i \in DOMAIN s : Append(s, x)[i] = s[i]
<1>1. /\ Len(s) \in Nat /\ DOMAIN s = 1..Len(s)
      /\ Append(s, x) \in Seq(S) /\ Len(Append(s, x)) = Len(s) + 1
      /\ DOMAIN Append(s, x) = 1..(Len(s) + 1)
  OBVIOUS
<1>2. \A i \in 1..(Len(s) + 1) : Append(s, x)[i] = IF i <= Len(s) THEN s[i] ELSE x
  OBVIOUS
<1> QED
  BY <1>1, <1>2

LEMMA PostSound ==
  ASSUME Sound(db, clock), db.version = 2,
         NEW r, r = [text |-> 0, upvotes |-> 0, replies |-> 0],
         NEW e, e = NewPosts(db, Append(db.posts, r))
  PROVE  Sound(e, clock) /\ e.version = 2
<1> DEFINE n == Len(db.posts) + 1
<1>1. db \in Database /\ db.posts \in Seq(Post)
  BY Fields DEF Sound
<1>2. r \in Post /\ r.text = 0 /\ r.upvotes = 0 /\ r.replies = 0
  BY DEF Post
<1>3. /\ Append(db.posts, r) \in Seq(Post)
      /\ n \notin DOMAIN db.posts
      /\ DOMAIN Append(db.posts, r) = DOMAIN db.posts \cup {n}
      /\ Append(db.posts, r)[n] = r
      /\ \A p \in DOMAIN db.posts : Append(db.posts, r)[p] = db.posts[p]
  BY <1>1, <1>2, Appended
<1> HIDE DEF n
<1>4. /\ e \in Database /\ e.version = 2
      /\ e.replies = db.replies /\ e.votes = db.votes /\ e.cast = db.cast
      /\ e.posts = Append(db.posts, r)
  BY <1>1, <1>3, NewPostsFields
<1>5. /\ DOMAIN e.posts = DOMAIN db.posts \cup {n} /\ e.posts[n] = r
      /\ \A p \in DOMAIN db.posts : e.posts[p] = db.posts[p]
  BY <1>3, <1>4
<1>6. Migrated(e)
  BY <1>2, <1>4, <1>5 DEF Sound, Migrated
<1>7. Linked(e)
  BY <1>4, <1>5 DEF Sound, Linked
<1>8. Dated(e, clock)
  BY <1>4 DEF Sound, Dated
<1>9. Counted(e)
  <2>1. ASSUME NEW p
        PROVE  VotesFor(e, p) = VotesFor(db, p) /\ RepliesOf(e, p) = RepliesOf(db, p)
    BY <1>4 DEF VotesFor, RepliesOf
  <2>2. VotesFor(db, n) = {} /\ RepliesOf(db, n) = {}
    BY <1>3 DEF Sound, Linked, VotesFor, RepliesOf
  <2>3. Cardinality({}) = 0
    BY FS_EmptySet
  <2>4. ASSUME NEW p \in DOMAIN db.posts
        PROVE  /\ e.posts[p].upvotes = Cardinality(VotesFor(e, p))
               /\ e.posts[p].replies = Cardinality(RepliesOf(e, p))
    BY <1>5, <2>1 DEF Sound, Counted
  <2>5. /\ e.posts[n].upvotes = Cardinality(VotesFor(e, n))
        /\ e.posts[n].replies = Cardinality(RepliesOf(e, n))
    BY <1>2, <1>5, <2>1, <2>2, <2>3
  <2> QED
    BY <1>5, <2>4, <2>5 DEF Counted
<1> QED
  BY <1>4, <1>6, <1>7, <1>8, <1>9 DEF Sound

LEMMA WithReplyFields ==
  ASSUME NEW d \in Database, NEW p \in DOMAIN d.posts
  PROVE  LET e == WithReply(d, p)
             n == Len(d.replies) + 1
         IN /\ e \in Database
            /\ e.posts = d.posts /\ e.votes = d.votes /\ e.cast = d.cast
            /\ e.version = d.version
            /\ n \notin DOMAIN d.replies
            /\ DOMAIN e.replies = DOMAIN d.replies \cup {n}
            /\ e.replies[n].post = p /\ e.replies[n].text = 0
            /\ \A i \in DOMAIN d.replies : e.replies[i] = d.replies[i]
<1> DEFINE r == [post |-> p, text |-> 0]
           R == Append(d.replies, r)
<1>1. d.posts \in Seq(Post) /\ d.replies \in Seq(Reply)
  BY Fields
<1>2. p \in Nat
  BY <1>1
<1>3. r \in Reply /\ r.post = p /\ r.text = 0
  BY <1>2 DEF Reply
<1>4. WithReply(d, p) = NewReplies(d, R)
  BY DEF WithReply, NewReplies
<1> HIDE DEF r
<1>5. /\ R \in Seq(Reply)
      /\ Len(d.replies) + 1 \notin DOMAIN d.replies
      /\ DOMAIN R = DOMAIN d.replies \cup {Len(d.replies) + 1}
      /\ R[Len(d.replies) + 1] = r
      /\ \A i \in DOMAIN d.replies : R[i] = d.replies[i]
  BY <1>1, <1>3, Appended
<1> HIDE DEF R
<1> QED
  BY <1>3, <1>4, <1>5, NewRepliesFields

LEMMA OneMoreOfRow ==
  ASSUME NEW r \in Post
  PROVE  /\ LET n == [r EXCEPT !.replies = @ + 1] IN
              /\ n \in Post
              /\ n.replies = r.replies + 1 /\ n.upvotes = r.upvotes /\ n.text = r.text
         /\ LET n == [r EXCEPT !.upvotes = @ + 1] IN
              /\ n \in Post
              /\ n.upvotes = r.upvotes + 1 /\ n.replies = r.replies /\ n.text = r.text
  BY DEF Post

LEMMA OneMore ==
  ASSUME NEW rows \in Seq(Post), NEW p \in DOMAIN rows
  PROVE  /\ LET e == [rows EXCEPT ![p].replies = @ + 1] IN
              /\ e \in Seq(Post) /\ DOMAIN e = DOMAIN rows
              /\ e[p].replies = rows[p].replies + 1
              /\ e[p].upvotes = rows[p].upvotes /\ e[p].text = rows[p].text
              /\ \A q \in DOMAIN rows \ {p} : e[q] = rows[q]
         /\ LET e == [rows EXCEPT ![p].upvotes = @ + 1] IN
              /\ e \in Seq(Post) /\ DOMAIN e = DOMAIN rows
              /\ e[p].upvotes = rows[p].upvotes + 1
              /\ e[p].replies = rows[p].replies /\ e[p].text = rows[p].text
              /\ \A q \in DOMAIN rows \ {p} : e[q] = rows[q]
<1>1. rows[p] \in Post
  OBVIOUS
<1>2. ASSUME NEW r \in Post
      PROVE  LET e == [rows EXCEPT ![p] = r] IN
             /\ e \in Seq(Post) /\ DOMAIN e = DOMAIN rows
             /\ e[p] = r
             /\ \A q \in DOMAIN rows \ {p} : e[q] = rows[q]
  OBVIOUS
<1>3. LET n == [rows[p] EXCEPT !.replies = @ + 1]
          e == [rows EXCEPT ![p] = n]
      IN /\ e \in Seq(Post) /\ DOMAIN e = DOMAIN rows
         /\ e[p].replies = rows[p].replies + 1
         /\ e[p].upvotes = rows[p].upvotes /\ e[p].text = rows[p].text
         /\ \A q \in DOMAIN rows \ {p} : e[q] = rows[q]
  <2> DEFINE n == [rows[p] EXCEPT !.replies = @ + 1]
             e == [rows EXCEPT ![p] = n]
  <2>1. n \in Post /\ n.replies = rows[p].replies + 1 /\ n.upvotes = rows[p].upvotes
          /\ n.text = rows[p].text
    BY <1>1, OneMoreOfRow
  <2> HIDE DEF n
  <2>2. /\ e \in Seq(Post) /\ DOMAIN e = DOMAIN rows /\ e[p] = n
        /\ \A q \in DOMAIN rows \ {p} : e[q] = rows[q]
    BY <2>1, <1>2
  <2> HIDE DEF e
  <2>3. /\ e \in Seq(Post) /\ DOMAIN e = DOMAIN rows
        /\ e[p].replies = rows[p].replies + 1
        /\ e[p].upvotes = rows[p].upvotes /\ e[p].text = rows[p].text
        /\ \A q \in DOMAIN rows \ {p} : e[q] = rows[q]
    BY <2>1, <2>2
  <2> QED
    BY <2>3 DEF e, n
<1>4. LET n == [rows[p] EXCEPT !.upvotes = @ + 1]
          e == [rows EXCEPT ![p] = n]
      IN /\ e \in Seq(Post) /\ DOMAIN e = DOMAIN rows
         /\ e[p].upvotes = rows[p].upvotes + 1
         /\ e[p].replies = rows[p].replies /\ e[p].text = rows[p].text
         /\ \A q \in DOMAIN rows \ {p} : e[q] = rows[q]
  <2> DEFINE n == [rows[p] EXCEPT !.upvotes = @ + 1]
             e == [rows EXCEPT ![p] = n]
  <2>1. n \in Post /\ n.upvotes = rows[p].upvotes + 1 /\ n.replies = rows[p].replies
          /\ n.text = rows[p].text
    BY <1>1, OneMoreOfRow
  <2> HIDE DEF n
  <2>2. /\ e \in Seq(Post) /\ DOMAIN e = DOMAIN rows /\ e[p] = n
        /\ \A q \in DOMAIN rows \ {p} : e[q] = rows[q]
    BY <2>1, <1>2
  <2> HIDE DEF e
  <2>3. /\ e \in Seq(Post) /\ DOMAIN e = DOMAIN rows
        /\ e[p].upvotes = rows[p].upvotes + 1
        /\ e[p].replies = rows[p].replies /\ e[p].text = rows[p].text
        /\ \A q \in DOMAIN rows \ {p} : e[q] = rows[q]
    BY <2>1, <2>2
  <2> QED
    BY <2>3 DEF e, n
<1> QED
  BY <1>3, <1>4

(***************************************************************************)
(* One more reply, as CountReply leaves the database.                      *)
(***************************************************************************)
OneMoreReply(d, p, e) ==
  LET n == Len(d.replies) + 1 IN
  /\ e \in Database /\ e.version = d.version
  /\ e.votes = d.votes /\ e.cast = d.cast
  /\ n \notin DOMAIN d.replies /\ DOMAIN e.replies = DOMAIN d.replies \cup {n}
  /\ e.replies[n].post = p /\ e.replies[n].text = 0
  /\ \A i \in DOMAIN d.replies : e.replies[i] = d.replies[i]
  /\ DOMAIN e.posts = DOMAIN d.posts
  /\ e.posts[p].text = d.posts[p].text /\ e.posts[p].upvotes = d.posts[p].upvotes
  /\ e.posts[p].replies = d.posts[p].replies + 1
  /\ \A q \in DOMAIN d.posts \ {p} : e.posts[q] = d.posts[q]

LEMMA CountedReplyFields ==
  ASSUME NEW d \in Database, NEW p \in DOMAIN d.posts
  PROVE  LET b == WithReply(d, p) IN
         OneMoreReply(d, p, NewPosts(b, [b.posts EXCEPT ![p].replies = @ + 1]))
<1> DEFINE b == WithReply(d, p)
           P == [b.posts EXCEPT ![p].replies = @ + 1]
           e == NewPosts(b, P)
           n == Len(d.replies) + 1
<1>1. d.posts \in Seq(Post)
  BY Fields
<1>2. /\ b \in Database
      /\ b.posts = d.posts /\ b.votes = d.votes /\ b.cast = d.cast
      /\ b.version = d.version
      /\ n \notin DOMAIN d.replies
      /\ DOMAIN b.replies = DOMAIN d.replies \cup {n}
      /\ b.replies[n].post = p /\ b.replies[n].text = 0
      /\ \A i \in DOMAIN d.replies : b.replies[i] = d.replies[i]
  BY WithReplyFields
<1> HIDE DEF b
<1>3. /\ P \in Seq(Post) /\ DOMAIN P = DOMAIN d.posts
      /\ P[p].replies = d.posts[p].replies + 1
      /\ P[p].upvotes = d.posts[p].upvotes /\ P[p].text = d.posts[p].text
      /\ \A q \in DOMAIN d.posts \ {p} : P[q] = d.posts[q]
  <2>1. P = [d.posts EXCEPT ![p].replies = @ + 1]
    BY <1>2
  <2> HIDE DEF P
  <2> QED
    BY <1>1, <2>1, OneMore
<1> HIDE DEF P
<1>4. /\ e \in Database /\ e.version = b.version /\ e.posts = P
      /\ e.replies = b.replies /\ e.votes = b.votes /\ e.cast = b.cast
  BY <1>2, <1>3, NewPostsFields
<1> HIDE DEF e
<1>5. OneMoreReply(d, p, e)
  BY <1>2, <1>3, <1>4 DEF OneMoreReply
<1> QED
  BY <1>5 DEF e, P, b

LEMMA ReplySound ==
  ASSUME NEW d, NEW now \in Nat, Sound(d, now), d.version = 2,
         NEW p \in DOMAIN d.posts, NEW e, OneMoreReply(d, p, e)
  PROVE  Sound(e, now) /\ e.version = 2
<1> DEFINE n == Len(d.replies) + 1
<1>1. /\ e \in Database /\ e.version = 2
      /\ e.votes = d.votes /\ e.cast = d.cast
      /\ n \notin DOMAIN d.replies /\ DOMAIN e.replies = DOMAIN d.replies \cup {n}
      /\ e.replies[n].post = p /\ e.replies[n].text = 0
      /\ \A i \in DOMAIN d.replies : e.replies[i] = d.replies[i]
  BY DEF OneMoreReply
<1>2. /\ DOMAIN e.posts = DOMAIN d.posts
      /\ e.posts[p].text = d.posts[p].text /\ e.posts[p].upvotes = d.posts[p].upvotes
      /\ e.posts[p].replies = d.posts[p].replies + 1
      /\ \A q \in DOMAIN d.posts \ {p} : e.posts[q] = d.posts[q]
  BY DEF OneMoreReply
<1> HIDE DEF n
<1>3. d \in Database /\ Migrated(d) /\ Linked(d) /\ Dated(d, now) /\ Counted(d)
  BY DEF Sound
<1>4. Migrated(e)
  <2>1. /\ \A q \in DOMAIN d.posts : d.posts[q].text = 0
        /\ \A i \in DOMAIN d.replies : d.replies[i].text = 0
        /\ \A v \in d.votes \cup d.cast : v.voter.key # NoKey
    BY <1>3 DEF Migrated
  <2>2. \A q \in DOMAIN e.posts : e.posts[q].text = 0
    BY <1>2, <2>1
  <2>3. \A i \in DOMAIN e.replies : e.replies[i].text = 0
    BY <1>1, <2>1
  <2> QED
    BY <1>1, <2>1, <2>2, <2>3 DEF Migrated
<1>5. Linked(e)
  BY <1>1, <1>2, <1>3 DEF Linked
<1>6. Dated(e, now)
  BY <1>1, <1>3 DEF Dated
<1>7. Counted(e)
  <2>1. ASSUME NEW q PROVE VotesFor(e, q) = VotesFor(d, q)
    BY <1>1 DEF VotesFor
  <2>2. ASSUME NEW q, q # p PROVE RepliesOf(e, q) = RepliesOf(d, q)
    BY <1>1, <2>2 DEF RepliesOf
  <2>3. RepliesOf(e, p) = RepliesOf(d, p) \cup {n} /\ n \notin RepliesOf(d, p)
    BY <1>1 DEF RepliesOf
  <2>4. Cardinality(RepliesOf(e, p)) = Cardinality(RepliesOf(d, p)) + 1
    BY <1>3, <2>3, RepliesFinite, FS_AddElement
  <2>5. ASSUME NEW q \in DOMAIN d.posts
        PROVE  /\ d.posts[q].upvotes = Cardinality(VotesFor(d, q))
               /\ d.posts[q].replies = Cardinality(RepliesOf(d, q))
    BY <1>3 DEF Counted
  <2>6. ASSUME NEW q \in DOMAIN d.posts \ {p}
        PROVE  /\ e.posts[q].upvotes = Cardinality(VotesFor(e, q))
               /\ e.posts[q].replies = Cardinality(RepliesOf(e, q))
    BY <1>2, <2>1, <2>2, <2>5
  <2>7. /\ e.posts[p].upvotes = Cardinality(VotesFor(e, p))
        /\ e.posts[p].replies = Cardinality(RepliesOf(e, p))
    BY <1>2, <2>1, <2>4, <2>5
  <2> QED
    BY <1>2, <2>6, <2>7 DEF Counted
<1> QED
  BY <1>1, <1>4, <1>5, <1>6, <1>7 DEF Sound

LEMMA WithCastFields ==
  ASSUME NEW d \in Database, NEW vote \in Vote
  PROVE  LET e == WithCast(d, vote) IN
         /\ e \in Database
         /\ e.posts = d.posts /\ e.replies = d.replies /\ e.version = d.version
         /\ e.votes = d.votes \cup {vote}
         /\ vote.post \in DOMAIN d.posts => e.cast = d.cast \cup {vote}
         /\ vote.post \notin DOMAIN d.posts => e.cast = d.cast
<1> DEFINE V == d.votes \cup {vote}
           C == IF vote.post \in DOMAIN d.posts THEN d.cast \cup {vote} ELSE d.cast
<1>1. d.votes \in SUBSET Vote /\ d.cast \in SUBSET Vote
  BY Fields
<1>2. V \in SUBSET Vote /\ C \in SUBSET Vote
  BY <1>1
<1>3. WithCast(d, vote) = NewCast(d, V, C)
  BY DEF WithCast, NewCast
<1>4. /\ V = d.votes \cup {vote}
      /\ vote.post \in DOMAIN d.posts => C = d.cast \cup {vote}
      /\ vote.post \notin DOMAIN d.posts => C = d.cast
  OBVIOUS
<1> HIDE DEF V, C
<1> QED
  BY <1>2, <1>3, <1>4, NewCastFields

(***************************************************************************)
(* One more vote, as CountVote leaves the database.                        *)
(***************************************************************************)
OneMoreVote(d, vote, e) ==
  /\ e \in Database /\ e.version = d.version
  /\ e.replies = d.replies /\ e.votes = d.votes \cup {vote}
  /\ e.cast = IF vote.post \in DOMAIN d.posts THEN d.cast \cup {vote} ELSE d.cast
  /\ DOMAIN e.posts = DOMAIN d.posts
  /\ \A q \in DOMAIN d.posts :
       /\ e.posts[q].text = d.posts[q].text
       /\ e.posts[q].replies = d.posts[q].replies
       /\ e.posts[q].upvotes = d.posts[q].upvotes + (IF q = vote.post THEN 1 ELSE 0)

LEMMA CountedVoteFields ==
  ASSUME NEW d \in Database, NEW vote \in Vote
  PROVE  LET b == WithCast(d, vote) IN
         /\ vote.post \in DOMAIN b.posts =>
              OneMoreVote(d, vote, NewPosts(b, [b.posts EXCEPT ![vote.post].upvotes = @ + 1]))
         /\ vote.post \notin DOMAIN b.posts => OneMoreVote(d, vote, b)
<1> DEFINE b == WithCast(d, vote)
           p == vote.post
           P == [b.posts EXCEPT ![p].upvotes = @ + 1]
<1>1. d.posts \in Seq(Post) /\ \A q \in DOMAIN d.posts : d.posts[q] \in Post
  BY Fields
<1>2. /\ b \in Database
      /\ b.posts = d.posts /\ b.replies = d.replies /\ b.version = d.version
      /\ b.votes = d.votes \cup {vote}
      /\ p \in DOMAIN d.posts => b.cast = d.cast \cup {vote}
      /\ p \notin DOMAIN d.posts => b.cast = d.cast
  BY WithCastFields
<1> HIDE DEF b
<1>3. ASSUME p \notin DOMAIN d.posts PROVE OneMoreVote(d, vote, b)
  BY <1>1, <1>2, <1>3 DEF Post, OneMoreVote
<1>4. ASSUME p \in DOMAIN d.posts PROVE OneMoreVote(d, vote, NewPosts(b, P))
  <2>1. /\ P \in Seq(Post) /\ DOMAIN P = DOMAIN d.posts
        /\ P[p].upvotes = d.posts[p].upvotes + 1
        /\ P[p].replies = d.posts[p].replies /\ P[p].text = d.posts[p].text
        /\ \A q \in DOMAIN d.posts \ {p} : P[q] = d.posts[q]
    <3>1. P = [d.posts EXCEPT ![p].upvotes = @ + 1]
      BY <1>2
    <3> HIDE DEF P, p
    <3> QED
      BY <1>1, <1>4, <3>1, OneMore
  <2> HIDE DEF P
  <2> DEFINE e == NewPosts(b, P)
  <2>2. /\ e \in Database /\ e.version = d.version /\ e.posts = P
        /\ e.replies = d.replies /\ e.votes = b.votes /\ e.cast = b.cast
    BY <1>2, <2>1, NewPostsFields
  <2> HIDE DEF e
  <2>3. ASSUME NEW q \in DOMAIN d.posts
        PROVE  /\ e.posts[q].text = d.posts[q].text
               /\ e.posts[q].replies = d.posts[q].replies
               /\ e.posts[q].upvotes = d.posts[q].upvotes + (IF q = vote.post THEN 1 ELSE 0)
    <3>1. d.posts[q].upvotes \in Nat
      BY <1>1 DEF Post
    <3>2. CASE q = p
      BY <2>1, <2>2, <3>2
    <3>3. CASE q # p
      BY <2>1, <2>2, <3>1, <3>3
    <3> QED
      BY <3>2, <3>3
  <2>4. OneMoreVote(d, vote, e)
    BY <1>2, <1>4, <2>1, <2>2, <2>3 DEF OneMoreVote
  <2> QED
    BY <2>4 DEF e
<1> QED
  BY <1>2, <1>3, <1>4 DEF b

LEMMA VoteSound ==
  ASSUME NEW d, NEW now \in Nat, Sound(d, now), d.version = 2,
         NEW vote \in Vote, vote.voter.key # NoKey, Fresh(vote, d, now),
         NEW e, OneMoreVote(d, vote, e)
  PROVE  Sound(e, now) /\ e.version = 2
<1>1. /\ e \in Database /\ e.version = 2
      /\ e.replies = d.replies /\ e.votes = d.votes \cup {vote}
      /\ e.cast = IF vote.post \in DOMAIN d.posts THEN d.cast \cup {vote} ELSE d.cast
      /\ DOMAIN e.posts = DOMAIN d.posts
  BY DEF OneMoreVote
<1>2. \A q \in DOMAIN d.posts :
        /\ e.posts[q].text = d.posts[q].text
        /\ e.posts[q].replies = d.posts[q].replies
        /\ e.posts[q].upvotes = d.posts[q].upvotes + (IF q = vote.post THEN 1 ELSE 0)
  BY DEF OneMoreVote
<1>3. /\ d \in Database /\ Migrated(d) /\ Linked(d) /\ Dated(d, now) /\ Counted(d)
      /\ d.posts \in Seq(Post) /\ d.cast \in SUBSET Vote
  BY Fields DEF Sound
<1>4. vote \notin d.cast
  <2> SUFFICES ASSUME vote \in d.cast PROVE FALSE
    OBVIOUS
  <2>1. vote.at - vote.at > Retention
    BY DEF Fresh
  <2>2. vote.at \in Nat
    BY VoteFields
  <2> QED
    BY <2>1, <2>2, RetentionAssumption
<1>5. Migrated(e)
  <2>1. \A v \in e.votes \cup e.cast : v.voter.key # NoKey
    BY <1>1, <1>3 DEF Migrated
  <2> QED
    BY <1>1, <1>2, <1>3, <2>1 DEF Migrated
<1>6. Linked(e)
  <2>1. IsFiniteSet(e.cast)
    <3>1. IsFiniteSet(d.cast)
      BY <1>3 DEF Linked
    <3>2. IsFiniteSet(d.cast \cup {vote})
      BY <3>1, FS_AddElement
    <3> QED
      BY <1>1, <3>1, <3>2
  <2> QED
    BY <1>1, <1>3, <2>1 DEF Linked
<1>7. Dated(e, now)
  <2>1. e.cast \subseteq d.cast \cup {vote}
    BY <1>1
  <2>2. \A c \in e.cast : c.at <= now
    BY <1>3, <2>1 DEF Dated, Fresh
  <2>3. \A c \in e.cast : c.at >= now - Retention => c \in e.votes
    BY <1>1, <1>3, <2>1 DEF Dated
  <2>4. ASSUME NEW c \in e.cast, NEW x \in e.cast,
               c # x, c.post = x.post, c.voter = x.voter
        PROVE  c.at - x.at > Retention \/ x.at - c.at > Retention
    BY <1>3, <2>1, <2>4 DEF Dated, Fresh
  <2> QED
    BY <2>2, <2>3, <2>4 DEF Dated
<1>8. Counted(e)
  <2>1. ASSUME NEW q PROVE RepliesOf(e, q) = RepliesOf(d, q)
    BY <1>1 DEF RepliesOf
  <2>2. ASSUME NEW q \in DOMAIN d.posts, q # vote.post
        PROVE  VotesFor(e, q) = VotesFor(d, q)
    BY <1>1, <2>2 DEF VotesFor
  <2>3. ASSUME vote.post \in DOMAIN d.posts
        PROVE  Cardinality(VotesFor(e, vote.post)) = Cardinality(VotesFor(d, vote.post)) + 1
    <3>1. /\ VotesFor(e, vote.post) = VotesFor(d, vote.post) \cup {vote}
          /\ vote \notin VotesFor(d, vote.post)
      BY <1>1, <1>4, <2>3 DEF VotesFor
    <3>2. IsFiniteSet(VotesFor(d, vote.post))
      BY <1>3, VotesFinite DEF Linked
    <3> QED
      BY <3>1, <3>2, FS_AddElement
  <2>4. ASSUME NEW q \in DOMAIN d.posts
        PROVE  /\ d.posts[q].upvotes = Cardinality(VotesFor(d, q))
               /\ d.posts[q].replies = Cardinality(RepliesOf(d, q))
               /\ d.posts[q].upvotes \in Nat
    <3>1. d.posts[q] \in Post
      BY <1>3
    <3> QED
      BY <1>3, <3>1 DEF Counted, Post
  <2>5. ASSUME NEW q \in DOMAIN d.posts
        PROVE  /\ e.posts[q].upvotes = Cardinality(VotesFor(e, q))
               /\ e.posts[q].replies = Cardinality(RepliesOf(e, q))
    <3>1. CASE q = vote.post
      BY <1>2, <2>1, <2>3, <2>4, <3>1
    <3>2. CASE q # vote.post
      BY <1>2, <2>1, <2>2, <2>4, <3>2
    <3> QED
      BY <3>1, <3>2
  <2> QED
    BY <1>1, <2>5 DEF Counted
<1> QED
  BY <1>1, <1>5, <1>6, <1>7, <1>8 DEF Sound

(***************************************************************************)
(* The files that a process may find.                                      *)
(***************************************************************************)
LEMMA NewFileSound == Sound(NewFile, 0)
<1>1. NewFile \in Database
  BY DEF NewFile, Database
<1>2. /\ DOMAIN NewFile.posts = {} /\ DOMAIN NewFile.replies = {}
      /\ NewFile.votes = {} /\ NewFile.cast = {}
  BY DEF NewFile
<1>3. Migrated(NewFile)
  BY <1>2 DEF Migrated
<1>4. Linked(NewFile)
  BY <1>2, FS_EmptySet DEF Linked
<1>5. Dated(NewFile, 0)
  BY <1>2 DEF Dated
<1>6. Counted(NewFile)
  BY <1>2 DEF Counted
<1> QED
  BY <1>1, <1>3, <1>4, <1>5, <1>6 DEF Sound

LEMMA OldFileSound ==
  ASSUME NEW n \in 0..1, NEW visitor \in Visitors
  PROVE  Sound(OldFile(n, visitor), 0)
<1> DEFINE d == OldFile(n, visitor)
           vote == [post |-> 1, voter |-> Clear(visitor), at |-> 0]
           post == [text |-> 1 - n, upvotes |-> 1, replies |-> 1]
           reply == [post |-> 1, text |-> 1 - n]
<1>1. /\ vote \in Vote /\ vote.post = 1 /\ vote.at = 0 /\ vote.voter.key = NoKey
  BY DEF Vote, Voters, Clear, NoKey
<1>2. /\ post \in Post /\ post.text = 1 - n /\ post.upvotes = 1 /\ post.replies = 1
  BY DEF Post
<1>3. /\ reply \in Reply /\ reply.text = 1 - n /\ reply.post = 1
  BY DEF Reply
<1>4. /\ d.posts = <<post>> /\ d.replies = <<reply>>
      /\ d.votes = {vote} /\ d.cast = {vote} /\ d.version = n
  BY DEF OldFile
<1>5. d \in Database
  <2>1. /\ <<post>> \in Seq(Post) /\ <<reply>> \in Seq(Reply)
        /\ {vote} \in SUBSET Vote /\ n \in 0..2
    BY <1>1, <1>2, <1>3
  <2>2. d = [posts |-> <<post>>, replies |-> <<reply>>, votes |-> {vote},
             cast |-> {vote}, version |-> n]
    BY DEF OldFile
  <2> HIDE DEF post, reply, vote, d
  <2> QED
    BY <2>1, <2>2 DEF Database, Post, Reply
<1> HIDE DEF vote, post, reply
<1>6. /\ DOMAIN d.posts = {1} /\ d.posts[1] = post
      /\ DOMAIN d.replies = {1} /\ d.replies[1] = reply
  BY <1>4
<1> HIDE DEF d
<1>7. Migrated(d)
  BY <1>1, <1>2, <1>3, <1>4, <1>6 DEF Migrated
<1>8. Linked(d)
  <2>1. IsFiniteSet(d.cast)
    BY <1>4, FS_Singleton
  <2> QED
    BY <1>1, <1>3, <1>4, <1>6, <2>1 DEF Linked
<1>9. Dated(d, 0)
  BY <1>1, <1>4 DEF Dated
<1>10. Counted(d)
  <2>1. VotesFor(d, 1) = {vote} /\ RepliesOf(d, 1) = {1}
    BY <1>1, <1>3, <1>4, <1>6 DEF VotesFor, RepliesOf
  <2>2. Cardinality({vote}) = 1 /\ Cardinality({1}) = 1
    BY FS_Singleton
  <2> QED
    BY <1>2, <1>6, <2>1, <2>2 DEF Counted
<1> QED
  BY <1>5, <1>7, <1>8, <1>9, <1>10 DEF Sound, d

LEMMA InitInv == Init => Inv
<1> SUFFICES ASSUME Init PROVE Inv
  OBVIOUS
<1>1. Sound(disk, 0)
  BY NewFileSound, OldFileSound DEF Init
<1>2. stage \in Stages /\ key \in Keys /\ starts \in Nat /\ clock \in Nat
  BY DEF Init, Stages, Keys
<1>3. AtStage
  BY DEF Init, AtStage
<1> QED
  BY <1>1, <1>2, <1>3 DEF Init, Inv

(***************************************************************************)
(* A committed database is open as it is, and every open one is a database.*)
(***************************************************************************)
LEMMA OpenDatabase ==
  ASSUME Inv
  PROVE  disk \in Database /\ db \in Database
<1>1. disk \in Database
  BY DEF Inv, Sound
<1>2. Seeded(disk) \in Database
  BY <1>1, SeededFields
<1>3. \A p \in DOMAIN disk.posts : WithReply(disk, p) \in Database
  BY <1>1, WithReplyFields
<1>4. \A vote \in Vote : WithCast(disk, vote) \in Database
  BY <1>1, WithCastFields
<1> QED
  BY <1>1, <1>2, <1>3, <1>4 DEF Inv, AtStage, Sound

LEMMA InvTypeOK == Inv => TypeOK
  BY OpenDatabase DEF Inv, TypeOK

(***************************************************************************)
(* Every stage but the one the process is in is excluded.                  *)
(***************************************************************************)
LEMMA StageFacts ==
  ASSUME Inv
  PROVE  /\ stage[1] \in {"down", "unescape", "hash", "purge", "seed", "serving"} => db = disk
         /\ stage[1] \in {"purge", "seed", "seeded", "serving", "reply", "vote"} =>
              disk.version = 2
         /\ stage[1] \in {"unescaped", "hashed"} => Sound(db, clock)
         /\ stage[1] = "unescaped" => db.version = 1
         /\ stage[1] = "hash" => disk.version >= 1
         /\ stage[1] = "hashed" => db.version = 2
         /\ stage[1] = "seeded" => db = Seeded(disk) /\ disk.posts = <<>>
         /\ stage[1] = "reply" =>
              stage[2] \in DOMAIN disk.posts /\ db = WithReply(disk, stage[2])
         /\ stage[1] = "vote" =>
              \E vote \in Vote : /\ Fits(vote, stage[2])
                                 /\ Fresh(vote, disk, clock)
                                 /\ db = WithCast(disk, vote)
  BY DEF Inv, AtStage

LEMMA CrashInv ==
  ASSUME Inv, Rollback,
         stage' = <<"down", 0>> \/ (stage' = Serving /\ disk.version = 2),
         UNCHANGED <<key, starts, clock>>
  PROVE  Inv'
<1>1. disk' = disk /\ db' = disk
  BY DEF Rollback
<1>2. stage' \in Stages
  BY DEF Stages, Serving
<1>3. AtStage'
  BY <1>1 DEF AtStage, Serving
<1> QED
  BY <1>1, <1>2, <1>3 DEF Inv, Sound, Migrated, Linked, Dated, Counted, VotesFor, RepliesOf

LEMMA CommitInv ==
  ASSUME Inv, NEW new, Commit(new), Sound(new, clock), new.version = 2,
         NEW to \in {"purge", "seed", "serving"}, stage' = <<to, 0>>,
         UNCHANGED <<key, starts, clock>>
  PROVE  Inv'
<1>1. disk' = new /\ db' = new
  BY DEF Commit
<1>2. stage' \in Stages
  BY DEF Stages
<1>3. AtStage'
  BY <1>1 DEF AtStage
<1>4. Sound(disk, clock)'
  BY <1>1
<1> QED
  BY <1>2, <1>3, <1>4 DEF Inv

LEMMA TickInv ==
  ASSUME Inv, Tick
  PROVE  Inv'
<1>1. /\ disk' = disk /\ db' = db /\ stage' = stage /\ key' = key /\ starts' = starts
      /\ clock \in Nat /\ clock' = clock + 1
  BY DEF Inv, Tick
<1>2. \A d : Sound(d, clock) => Sound(d, clock + 1)
  BY <1>1, SoundLater
<1>3. \A vote \in Vote : Fresh(vote, disk, clock) => Fresh(vote, disk, clock + 1)
  <2> SUFFICES ASSUME NEW vote \in Vote, Fresh(vote, disk, clock)
               PROVE  Fresh(vote, disk, clock + 1)
    OBVIOUS
  <2>1. vote.at \in Nat
    BY VoteFields
  <2> QED
    BY <1>1, <2>1 DEF Fresh
<1>4. Sound(disk', clock')
  BY <1>1, <1>2 DEF Inv
<1>5. AtStage'
  <2>1. stage[1] \in {"unescaped", "hashed"} => Sound(db, clock + 1)
    BY <1>2, StageFacts
  <2>2. stage[1] = "vote" =>
          \E vote \in Vote : /\ Fits(vote, stage[2])
                             /\ Fresh(vote, disk, clock + 1)
                             /\ db = WithCast(disk, vote)
    BY <1>3, StageFacts
  <2> QED
    BY <1>1, <2>1, <2>2 DEF Inv, AtStage
<1> QED
  BY <1>1, <1>4, <1>5 DEF Inv

LEMMA StartInv ==
  ASSUME Inv, Start
  PROVE  Inv'
<1>1. /\ stage[1] = "down" /\ disk' = disk /\ db' = db /\ clock' = clock
      /\ stage' = <<"unescape", 0>>
  BY DEF Start
<1>2. stage' \in Stages
  BY <1>1 DEF Stages
<1>3. starts' \in Nat /\ key' \in Keys
  BY DEF Start, Inv, Keys
<1>4. Sound(disk', clock')
  BY <1>1 DEF Inv
<1>5. AtStage'
  BY <1>1, StageFacts DEF AtStage
<1> QED
  BY <1>1, <1>2, <1>3, <1>4, <1>5 DEF Inv

LEMMA UnescapeInv ==
  ASSUME Inv, Unescape \/ CommitUnescaped
  PROVE  Inv'
<1>1. Sound(disk, clock) /\ clock \in Nat /\ disk.version \in 0..2
  BY Fields DEF Inv, Sound
<1>2. CASE db.version < 1 /\ Step("unescape", "unescaped") /\ Execute(PlainText)
  <2>1. /\ db = disk /\ stage' = <<"unescaped", 0>> /\ clock' = clock /\ key' = key
        /\ starts' = starts /\ disk' = disk /\ db' = PlainText
    BY <1>2, StageFacts DEF Step, Goto, Execute
  <2>2. Sound(PlainText, clock) /\ PlainText.version = 1
    BY <1>1, <1>2, <2>1, UnescapedSound
  <2>3. Sound(db, clock)' /\ db'.version = 1
    BY <2>1, <2>2
  <2>4. AtStage'
    BY <2>1, <2>3 DEF AtStage
  <2>5. stage' \in Stages
    BY <2>1 DEF Stages
  <2> QED
    BY <1>1, <2>1, <2>4, <2>5 DEF Inv
<1>3. CASE db.version >= 1 /\ Step("unescape", "hash") /\ UNCHANGED <<db, disk>>
  <2>1. /\ db = disk /\ stage' = <<"hash", 0>> /\ clock' = clock /\ key' = key
        /\ starts' = starts /\ disk' = disk /\ db' = db
    BY <1>3, StageFacts DEF Step, Goto
  <2>2. AtStage'
    BY <1>3, <2>1 DEF AtStage
  <2>3. stage' \in Stages
    BY <2>1 DEF Stages
  <2> QED
    BY <1>1, <2>1, <2>2, <2>3 DEF Inv
<1>4. CASE CommitUnescaped
  <2>1. /\ Sound(db, clock) /\ db.version = 1 /\ stage' = <<"hash", 0>>
        /\ clock' = clock /\ key' = key /\ starts' = starts
        /\ disk' = db /\ db' = db
    BY <1>4, StageFacts DEF CommitUnescaped, Step, Goto, Commit
  <2>2. AtStage'
    BY <2>1 DEF AtStage
  <2>3. stage' \in Stages
    BY <2>1 DEF Stages
  <2> QED
    BY <2>1, <2>2, <2>3 DEF Inv
<1> QED
  BY <1>2, <1>3, <1>4 DEF Unescape

LEMMA HashInv ==
  ASSUME Inv, HashVoters \/ CommitHashed
  PROVE  Inv'
<1>1. Sound(disk, clock) /\ clock \in Nat /\ disk.version \in 0..2 /\ key \in Keys
  BY Fields DEF Inv, Sound
<1>2. CASE db.version < 2 /\ Step("hash", "hashed") /\ Execute(HashedVoters)
  <2>1. /\ db = disk /\ disk.version >= 1
        /\ stage' = <<"hashed", 0>> /\ clock' = clock /\ key' = key
        /\ starts' = starts /\ disk' = disk /\ db' = HashedVoters
    BY <1>2, StageFacts DEF Step, Goto, Execute
  <2>2. db.version = 1
    BY <1>1, <1>2, <2>1
  <2>3. Sound(HashedVoters, clock) /\ HashedVoters.version = 2
    BY <1>1, <2>1, <2>2, HashedSound
  <2>4. Sound(db, clock)' /\ db'.version = 2
    BY <2>1, <2>3
  <2>5. AtStage'
    BY <2>1, <2>4 DEF AtStage
  <2>6. stage' \in Stages
    BY <2>1 DEF Stages
  <2> QED
    BY <1>1, <2>1, <2>5, <2>6 DEF Inv
<1>3. CASE db.version >= 2 /\ Step("hash", "purge") /\ UNCHANGED <<db, disk>>
  <2>1. /\ db = disk /\ Commit(disk) /\ stage' = <<"purge", 0>>
        /\ UNCHANGED <<key, starts, clock>>
    BY <1>3, StageFacts DEF Step, Goto, Commit
  <2> QED
    BY <1>1, <1>3, <2>1, CommitInv
<1>4. CASE CommitHashed
  <2>1. /\ Sound(db, clock) /\ db.version = 2 /\ Commit(db) /\ stage' = <<"purge", 0>>
        /\ UNCHANGED <<key, starts, clock>>
    BY <1>4, StageFacts DEF CommitHashed, Step, Goto
  <2> QED
    BY <2>1, CommitInv
<1> QED
  BY <1>2, <1>3, <1>4 DEF HashVoters

LEMMA SeedInv ==
  ASSUME Inv, PurgeAtStart \/ Seed \/ CommitSeeds
  PROVE  Inv'
<1>1. Sound(disk, clock) /\ clock \in Nat /\ disk \in Database
  BY DEF Inv, Sound
<1>2. CASE PurgeAtStart
  <2>1. /\ db = disk /\ disk.version = 2 /\ Commit(Purged) /\ stage' = <<"seed", 0>>
        /\ UNCHANGED <<key, starts, clock>>
    BY <1>2, StageFacts DEF PurgeAtStart, Step, Goto
  <2>2. Sound(Purged, clock) /\ Purged.version = 2
    BY <1>1, <2>1, PurgedSound
  <2> QED
    BY <2>1, <2>2, CommitInv
<1>3. CASE db.posts = <<>> /\ Step("seed", "seeded") /\ Execute(SeedPosts)
  <2>1. /\ db = disk /\ disk.version = 2 /\ disk.posts = <<>>
        /\ stage' = <<"seeded", 0>> /\ clock' = clock /\ key' = key
        /\ starts' = starts /\ disk' = disk /\ db' = SeedPosts
    BY <1>3, StageFacts DEF Step, Goto, Execute
  <2>2. db' = Seeded(disk)
    BY <2>1 DEF SeedPosts, Seeded
  <2>3. AtStage'
    BY <2>1, <2>2 DEF AtStage, Seeded
  <2>4. stage' \in Stages
    BY <2>1 DEF Stages
  <2> QED
    BY <1>1, <2>1, <2>3, <2>4 DEF Inv
<1>4. CASE db.posts # <<>> /\ Step("seed", "serving") /\ UNCHANGED <<db, disk>>
  <2>1. /\ db = disk /\ disk.version = 2 /\ Commit(disk) /\ stage' = <<"serving", 0>>
        /\ UNCHANGED <<key, starts, clock>>
    BY <1>4, StageFacts DEF Step, Goto, Commit
  <2> QED
    BY <1>1, <2>1, CommitInv
<1>5. CASE CommitSeeds
  <2> DEFINE seeds == [i \in DOMAIN SeedReplies |-> [post |-> SeedReplies[i], text |-> 0]]
             new == NewReplies(db, db.replies \o seeds)
  <2>1. /\ db = Seeded(disk) /\ disk.version = 2 /\ disk.posts = <<>>
        /\ stage' = <<"serving", 0>> /\ UNCHANGED <<key, starts, clock>>
    BY <1>5, StageFacts DEF CommitSeeds, Step, Goto
  <2>2. Commit(new)
    BY <1>5 DEF CommitSeeds, NewReplies
  <2>3. Sound(new, clock) /\ new.version = 2
    BY <1>1, <2>1, SeedsSound
  <2> HIDE DEF new
  <2> QED
    BY <2>1, <2>2, <2>3, CommitInv
<1> QED
  BY <1>2, <1>3, <1>4, <1>5 DEF Seed

LEMMA SubmitPostInv ==
  ASSUME Inv, SubmitPost
  PROVE  Inv'
<1> DEFINE r == [text |-> 0, upvotes |-> 0, replies |-> 0]
           new == NewPosts(db, Append(db.posts, r))
<1>1. /\ db = disk /\ disk.version = 2 /\ stage' = <<"serving", 0>>
      /\ UNCHANGED <<key, starts, clock>>
  BY StageFacts DEF SubmitPost, Goto, Serving
<1>2. Commit(new)
  BY DEF SubmitPost, NewPosts
<1>3. Sound(new, clock) /\ new.version = 2
  BY <1>1, PostSound DEF Inv
<1> HIDE DEF new
<1> QED
  BY <1>1, <1>2, <1>3, CommitInv

LEMMA ReplyInv ==
  ASSUME Inv, NEW p \in 1..MaxPosts, SubmitReply(p) \/ CountReply(p)
  PROVE  Inv'
<1>1. Sound(disk, clock) /\ clock \in Nat /\ disk \in Database /\ p \in Nat
  BY MaxPostsAssumption DEF Inv, Sound
<1>2. CASE SubmitReply(p)
  <2>1. /\ db = disk /\ disk.version = 2 /\ p \in DOMAIN disk.posts
        /\ stage' = <<"reply", p>> /\ clock' = clock /\ key' = key
        /\ starts' = starts /\ disk' = disk
    BY <1>2, StageFacts DEF SubmitReply, Goto, Serving, Execute
  <2>2. db' = WithReply(disk, p)
    BY <1>2, <2>1 DEF SubmitReply, Execute, WithReply
  <2>3. stage' \in Stages
    BY <1>1, <2>1 DEF Stages
  <2>4. AtStage'
    BY <2>1, <2>2 DEF AtStage, WithReply
  <2> QED
    BY <1>1, <2>1, <2>3, <2>4 DEF Inv
<1>3. CASE CountReply(p)
  <2> DEFINE new == NewPosts(db, [db.posts EXCEPT ![p].replies = @ + 1])
  <2>1. /\ db = WithReply(disk, p) /\ disk.version = 2 /\ p \in DOMAIN disk.posts
        /\ stage' = <<"serving", 0>> /\ UNCHANGED <<key, starts, clock>>
    BY <1>3, StageFacts DEF CountReply, Goto, Serving
  <2>2. Commit(new)
    BY <1>3 DEF CountReply, NewPosts
  <2>3. OneMoreReply(disk, p, new)
    BY <1>1, <2>1, CountedReplyFields
  <2> HIDE DEF new
  <2>4. Sound(new, clock) /\ new.version = 2
    BY <1>1, <2>1, <2>3, ReplySound
  <2> QED
    BY <2>1, <2>2, <2>4, CommitInv
<1> QED
  BY <1>2, <1>3

(***************************************************************************)
(* upvote forgets no vote that could keep this visitor from voting again.  *)
(***************************************************************************)
LEMMA UpvoteInv ==
  ASSUME Inv, NEW p \in 1..MaxPosts, NEW visitor \in Visitors, Upvote(visitor, p)
  PROVE  Inv'
<1> DEFINE voter == Hashed(visitor, key)
           vote == [post |-> p, voter |-> voter, at |-> clock]
<1>1. /\ db = disk /\ disk.version = 2 /\ Sound(db, clock) /\ clock \in Nat
      /\ key \in Keys /\ starts \in Nat /\ p \in Nat
      /\ UNCHANGED <<key, starts, clock>>
  BY StageFacts, MaxPostsAssumption DEF Upvote, Goto, Serving, Inv
<1>2. /\ Sound(Purged, clock) /\ Purged.version = 2
      /\ Purged.cast = db.cast /\ Purged.posts = db.posts
      /\ Purged.votes = {v \in db.votes : ~TooOld(v)}
  BY <1>1, PurgedSound
<1>3. CASE HasVoted(p, voter) /\ Goto(Serving, Serving) /\ db' = Purged
  <2>1. Commit(Purged) /\ stage' = <<"serving", 0>>
    BY <1>3 DEF Upvote, Goto, Serving, Commit
  <2> QED
    BY <1>1, <1>2, <2>1, CommitInv
<1>4. CASE ~HasVoted(p, voter) /\ Goto(Serving, <<"vote", p>>) /\ db' = WithVote(vote)
  <2>1. /\ vote \in Vote /\ vote.post = p /\ vote.voter = voter /\ vote.at = clock
        /\ vote.voter.key # NoKey
    BY <1>1, KeysAreNotClear DEF Vote, Voters, Hashed
  <2>2. Fits(vote, p)
    BY <2>1 DEF Fits
  <2>3. Fresh(vote, Purged, clock)
    <3> SUFFICES ASSUME NEW c \in db.cast, c.post = p, c.voter = voter,
                        ~(clock - c.at > Retention)
                 PROVE  FALSE
      BY <1>1, <1>2, <2>1 DEF Fresh
    <3>1. c.at \in Nat
      BY <1>1, Fields, VoteFields DEF Sound
    <3>2. c.at >= clock - Retention
      BY <1>1, <3>1, RetentionAssumption
    <3>3. c \in db.votes
      BY <1>1, <3>2 DEF Sound, Dated
    <3>4. ~TooOld(c)
      BY <1>1, <3>1, <3>2, RetentionAssumption DEF TooOld
    <3>5. c \in Purged.votes
      BY <1>2, <3>3, <3>4
    <3> QED
      BY <1>4, <3>5 DEF HasVoted
  <2> HIDE DEF vote
  <2>4. disk' = Purged /\ stage' = <<"vote", p>>
    BY <1>4 DEF Upvote, Goto
  <2>5. db' = WithCast(Purged, vote)
    BY <1>2, <1>4 DEF WithVote, WithCast
  <2>6. stage' \in Stages
    BY <1>1, <2>4 DEF Stages
  <2>7. Fresh(vote, Purged, clock') /\ Sound(Purged, clock')
    BY <1>1, <1>2, <2>3
  <2>8. AtStage'
    BY <1>2, <2>1, <2>2, <2>4, <2>5, <2>7 DEF AtStage
  <2> QED
    BY <1>1, <2>4, <2>6, <2>7, <2>8 DEF Inv
<1> QED
  BY <1>3, <1>4 DEF Upvote

LEMMA CountVoteInv ==
  ASSUME Inv, NEW p \in 1..MaxPosts, CountVote(p)
  PROVE  Inv'
<1>1. /\ Sound(disk, clock) /\ clock \in Nat /\ disk \in Database
      /\ disk.version = 2 /\ stage' = <<"serving", 0>> /\ UNCHANGED <<key, starts, clock>>
  BY StageFacts DEF Inv, Sound, CountVote, Goto, Serving
<1>2. PICK vote \in Vote : /\ Fits(vote, p) /\ Fresh(vote, disk, clock)
                           /\ db = WithCast(disk, vote)
  BY StageFacts DEF CountVote, Goto
<1>3. vote.post = p /\ vote.voter.key # NoKey
  BY <1>2 DEF Fits
<1> DEFINE new == IF p \in DOMAIN db.posts
                  THEN NewPosts(db, [db.posts EXCEPT ![p].upvotes = @ + 1]) ELSE db
<1>4. Commit(new)
  BY DEF CountVote, NewPosts
<1>5. OneMoreVote(disk, vote, new)
  BY <1>1, <1>2, <1>3, CountedVoteFields
<1> HIDE DEF new
<1>6. Sound(new, clock) /\ new.version = 2
  BY <1>1, <1>2, <1>3, <1>5, VoteSound
<1> QED
  BY <1>1, <1>4, <1>6, CommitInv

(***************************************************************************)
(* The invariant is inductive.                                             *)
(***************************************************************************)
THEOREM Inductive == Inv /\ [Next]_vars => Inv'
<1> SUFFICES ASSUME Inv, [Next]_vars PROVE Inv'
  OBVIOUS
<1>1. CASE Tick
  BY <1>1, TickInv
<1>2. CASE Start
  BY <1>2, StartInv
<1>3. CASE Crash
  BY <1>3, CrashInv DEF Crash
<1>4. CASE Unescape \/ CommitUnescaped
  BY <1>4, UnescapeInv
<1>5. CASE HashVoters \/ CommitHashed
  BY <1>5, HashInv
<1>6. CASE PurgeAtStart \/ Seed \/ CommitSeeds
  BY <1>6, SeedInv
<1>7. CASE SubmitPost
  BY <1>7, SubmitPostInv
<1>8. ASSUME NEW p \in 1..MaxPosts, SubmitReply(p) \/ CountReply(p)
      PROVE  Inv'
  BY <1>8, ReplyInv
<1>9. ASSUME NEW p \in 1..MaxPosts, CountVote(p)
      PROVE  Inv'
  BY <1>9, CountVoteInv
<1>10. ASSUME NEW p \in 1..MaxPosts, StatementRaises(p)
       PROVE  Inv'
  <2>1. stage[1] \in {"reply", "vote"} /\ stage' = Serving /\ Rollback
          /\ UNCHANGED <<key, starts, clock>>
    BY <1>10 DEF StatementRaises, Goto
  <2>2. disk.version = 2
    BY <2>1, StageFacts
  <2> QED
    BY <2>1, <2>2, CrashInv
<1>11. ASSUME NEW p \in 1..MaxPosts, NEW visitor \in Visitors, Upvote(visitor, p)
       PROVE  Inv'
  BY <1>11, UpvoteInv
<1>12. CASE UNCHANGED vars
  BY <1>12 DEF vars, Inv, AtStage
<1> QED
  BY <1>1, <1>2, <1>3, <1>4, <1>5, <1>6, <1>7, <1>8, <1>9, <1>10, <1>11, <1>12 DEF Next

(***************************************************************************)
(* The open and the committed database, and the rest of the state, always  *)
(* have their types (init_forum_db's tables, _voter_secret).               *)
(***************************************************************************)
THEOREM TypeCorrect == Spec => []TypeOK
<1> QED
  BY InitInv, Inductive, InvTypeOK, PTL DEF Spec

(***************************************************************************)
(* upvote, with its purge and across crashes, counts two votes of one      *)
(* visitor on one post only when they are more than Retention apart.       *)
(***************************************************************************)
THEOREM VotesStayApart == Spec => []OneVotePerVisitor
<1>1. Inv => OneVotePerVisitor
  BY DEF Inv, Sound, Dated, OneVotePerVisitor
<1> QED
  BY <1>1, InitInv, Inductive, PTL DEF Spec

(***************************************************************************)
(* submit_reply, upvote and seed_forum_db commit a row and its count in    *)
(* one transaction, so that no crash or failed statement separates them.   *)
(***************************************************************************)
THEOREM CountersAlwaysMatch == Spec => []CountersMatchRows
<1>1. Inv => CountersMatchRows
  BY DEF Inv, Sound, Counted, CountersMatchRows
<1> QED
  BY <1>1, InitInv, Inductive, PTL DEF Spec

(***************************************************************************)
(* _migrate leaves no escaped text and no address behind, however often    *)
(* it was interrupted, before the forum serves.                            *)
(***************************************************************************)
THEOREM MigrationIsExact == Spec => []ServesMigratedData
<1>1. Inv => ServesMigratedData
  <2> SUFFICES ASSUME Inv, stage[1] \in {"serving", "reply", "vote"}
               PROVE  /\ \A p \in DOMAIN disk.posts : disk.posts[p].text = 0
                      /\ \A i \in DOMAIN disk.replies : disk.replies[i].text = 0
                      /\ \A v \in disk.votes : v.voter.key # NoKey
    BY DEF ServesMigratedData
  <2>1. disk.version = 2
    BY StageFacts
  <2> QED
    BY <2>1 DEF Inv, Sound, Migrated
<1> QED
  BY <1>1, InitInv, Inductive, PTL DEF Spec
==============================================================================
