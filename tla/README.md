# HF_DFS: specifications, model checking and proofs

HF_DFS is a file sharing back end: eight FastCGI services in C behind nginx,
over MySQL (what belongs to whom), Redis (what is shared, ranked by downloads)
and FastDFS (the content).  This directory models the services, checks them with
TLC, and proves with TLAPS what matters most: content a row names is never
lost, counters and shares keep their basic laws under every interleaving, and
what an answer about an account or a token can be relied on for, which is less
than it says: a login without a password is told 000 where there is no account.

## 1. The system

`sh/fcgi.sh` starts **one** single-threaded process per service.  A process
handles one request from `FCGI_Accept` to its answer; two requests to the same
service never overlap, two requests to different services do.  MySQL runs with
autocommit and no handler opens a transaction, so the unit of atomicity is one
SQL statement, one Redis command or one FastDFS command.  A handler that reads
a count, adds one and writes it back takes two steps, and any other service may
act between them.

| Part | Source | Status | Module |
|---|---|---|---|
| upload | `cgi/upload_cgi.c` | modelled | `UploadCgi` (statements), `UploadFork` (processes), `Helpers` (body) |
| instant upload | `cgi/md5_cgi.c` | modelled | `Md5Cgi` |
| share, delete, count own files | `cgi/dealfile_cgi.c` | modelled | `DealFileCgi` |
| count, withdraw, copy shared files | `cgi/dealsharefile_cgi.c` | modelled | `DealShareFileCgi` |
| ranking | `cgi/sharefiles_cgi.c` | ranking modelled, share listings not | `ShareFilesCgi` |
| login, register, tokens | `cgi/login_cgi.c`, `cgi/register_cgi.c` | modelled | `Session` |
| own file list, token check, request loop | `cgi/myfiles_cgi.c`, `common/util_cgi.c` | modelled | `MyFilesCgi` |
| tables, Redis and SQL wrappers | `resource/HFDFS.sql`, `common/redis_op.c`, `common/deal_mysql.c` | as far as the services use them | `HfdfsState`, `Session` |
| membership test (ZLEXCOUNT) | `redis/src/t_zset.c` | ziplist encoding | `HfdfsState` |
| start and stop of processes | `sh/fcgi.sh` | modelled | `Hfdfs`, `UploadFork`, `Session` |
| string helpers, base64, DES | `common/util_cgi.c`, `common/base64.c`, `common/des.c` | operators; DES with small tables | `Helpers` |
| configuration, log | `common/config.c`, `common/make_log.c` | pure I/O | not modelled |
| cJSON, md5.c, Redis, FastDFS, nginx, libfcgi, hiredis, spawn-fcgi | third party | by the commands given to them | not modelled |

## 2. The modules

**`HfdfsState`** has the state the services share and the statements they have
in common.  The four tables are `file_info` and `user_file_count` (functions of
their primary key, `NoRow` for no row) and `user_file_list` and
`share_file_list` (tables without a key: sets of rows with the hidden InnoDB
row id, so that equal rows can exist twice and a SELECT without ORDER BY finds
the oldest).  The row of `user_file_count` with the key
`xxx_share_xxx_file_xxx_list_xxx_count_xxx` counts the shares; it is `ShareKey`.
Redis is `zset` (score of each member) and `hash` (the fields present; the
value of a field is always the name that is part of its key).  FastDFS is
`storage`, with ids that are never used twice.  Per process, `pc` names the
statement that comes next, `req` is the request in service, `tmp` what the last
SELECT returned (the handlers' `tmp`/`count`/`pv`), `reply` the last code.

**`UploadCgi`, `Md5Cgi`, `DealFileCgi`, `DealShareFileCgi`, `ShareFilesCgi`**
have one action per statement of each handler, named after the handler and what
the statement does (`DelSelectInfo`, `ShareZadd`, ...).  The action includes
the tests that follow the statement up to the next one, with their early exits
and answer codes.  `...Error` is a statement or a connection that fails at any
of these points; it goes where the code goes, which is not always the error
exit: a failing SELECT is taken for "not shared" by `share_file`, for "not
owned" by `deal_md5` and `save_file`, for success by the first SELECT of
`deal_md5`, and a failing SELECT of a counter leaves the SELECT in `sql_cmd`,
which is then run once more instead of the write.

Operators whose comment starts with "mutant" are deliberately wrong variants of
the definition after them.  Nothing uses them; substituted for that definition,
each breaks one property, which shows that the property can fail.

**`Hfdfs`** puts the five processes side by side and adds the environment:
`Kill(p)` stops a process between two statements (`stop_process`, a crash) and
it starts again idle; `RedisLoss` restarts Redis empty (`conf/redis.conf` has
`appendonly no` and saves after 900 s for few changes).  `ClientsDone` is the
stutter when every service waits in `FCGI_Accept` and the clients are done, so
that any other stop is reported as deadlock.  Four specifications share the
actions:

* `Spec`: any interleaving;
* `OneAtATimeSpec`: a request arrives only when all services are idle;
* `SerialSpec`: in addition, only requests the pages offer (share, delete and
  count a file one has, withdraw one's own share, copy or count a shared file);
* `FairSpec`: `Spec` with weak fairness of every process that is serving a
  request.  MySQL, Redis and FastDFS answer each command with a result or an
  error, so a running process goes on; nothing is assumed about clients, faults
  or kills.

**`ContentStore`** and **`FileLibrary`** are what the file services promise.
`ContentStore` is about content alone: a statement stores a file under a new
id, publishes a digest under a stored file that no other digest has, withdraws
a digest, or removes a file that is not published.  `Hfdfs` implements it in
any interleaving and with any fault (`ImplementsContentStore`: FastDFS is the
live files, `file_info` the publications).  `FileLibrary` is about users: a
digest is held as long as a user has it, a file is added once, only its owner
shares it and only once.  `Hfdfs` implements it when requests are served one at
a time (`ImplementsFileLibrary`); the findings below show why not otherwise.

**`UploadFork`** has the processes of the upload service.  The service forks,
the child executes a FastDFS tool with a pipe as its output, the service reads
the pipe.  If `execlp` fails, the child does not exit: it returns from
`upload_to_dstorage` or `make_file_url` as the service would, and goes on as a
copy of the service with the same request, its parent still waiting in `read`.
A slot of `pc` is a process; `parent` says who reads its output; `local`,
`stored` and `info` are the working directory, FastDFS and `file_info`.  A local
file has the name the client gave (`Filename`), so requests may share one:
`local` says whose body the file of a name holds, `stored` whose body FastDFS got
for a request.  `short` has the requests whose body was not written whole, which
the code does not notice, since it ignores what `ftruncate` and `write` return.
Saving is one step: a kill between `open` and `close` is not told apart from one
before or after.  The statements of `store_fileinfo_to_mysql` are in
`UploadCgi`; here they are one step.  `errs` and `crashes` are history.

**`Session`** has the table `user` with its two unique keys, the tokens in
Redis, and the login and register processes statement by statement.  A token is
the user's name and a number: `set_token` makes a new one, or the last one
again for a second login within one second, since `rand` is seeded with `time`.
`Expire` is the end of the 86400 seconds or a Redis restart.  A login may lack
its fields: `main` ignores what the parser returns and goes on with empty
strings, `None`.  `check_user_pwd` ignores what the SELECT returns and compares
the password with a buffer that is empty where there was no row or the SELECT
failed, so an empty password is then accepted, under any name or none.
**`MyFilesCgi`** extends it with the listing service: what `Parse` leaves in the
buffers `user`, `token` and `cmd`, which are declared outside the request loop;
the token check; the count; a page of the rows in one of the orders MySQL may
return; and the statements by which the other services change the rows.  A
client walks its pages until the first 015.  `list.from`, `walk.first`,
`walk.changed` and `login.equal` are history.

**`Helpers`** has the pure functions.  A behaviour spells a text out, so its
states are all texts of five kinds up to a length; the invariants compare each
function with what it is for.

**`MCHfdfs`** has the request sets and the member order of the TLC instances;
**`MCSession`** the mixes of the `Session` run, **`MCUploadFork`** the names and a
bound of the `UploadFork` run.  **`Bookkeeping`** adds to `Hfdfs`
the inductive invariants of serial requests, `BooksInv` and `RedisInv`.  The
proofs are in eight modules:

| Module | Has |
|---|---|
| `StepFacts` | what each statement of the five services changes and leaves alone, used by the next four |
| `StorageProofs` | types and content: `TypeOK` and `StorageInv` under every statement, and their theorems |
| `ServiceProofs` | counters and shares under any interleaving, Redis and the answers under serial requests: one lemma per statement and invariant |
| `BooksProofs` | the bookkeeping, `BooksInv`, under every statement |
| `HfdfsProofs` | puts the three together: the theorems about counters, shares, books, Redis, answers and `FileLibrary` |
| `ForkProofs` | `UploadFork` |
| `SessionProofs` | `Session` and `MyFilesCgi` |
| `HelpersProofs` | base64, DES, the file suffix and the ends of a value and of an upload, for texts of every length |

### Abstractions

A user, a digest, a name is a model value.  Member strings are compared through
`Rank`, an injective order; a member is the pair of digest and name, since the
pages send digests of 32 characters and the concatenation is then injective.
`createtime`, `url`, `size`, `type` are left out.  Counters are unbounded
integers: a MySQL `int` is far from its limits in any sequence of requests.
Redis commands do not fail by themselves; a lost Redis connection makes hiredis
return NULL, the wrappers dereference it, and the process dies, which is `Kill`.
The sorted set has the ziplist encoding (at most 128 members of at most 64
bytes in `conf/redis.conf`).

The file services take the token check as a choice between accepted and
refused: what they promise holds for both, and `MyFilesCgi` has the check
itself.  Requests to register carry every field (a body that lacks one is
answered 004 before any statement), and a registered password is not empty.
Without ORDER BY, MySQL scans `user_file_list` in the order of its hidden row
id, since the table has no key; with ORDER BY pv, rows with equal pv come in any
order, a different one for each query.

In `Helpers`, a keyword such as `user=` is one character, base64 digits are
their numbers, and DES works on words of two bits: padding, blocks, the eight
double rounds and the order of the round keys are the code's, while the S-boxes
and the bit permutations are small functions of the same kind, because
inversion does not depend on what they are.  `long` is `sizeof(unsigned long)`.
`des.c` copies 128 bytes of a key of 32 longs ("32 long = 128 bytes",
`common/des.c:462`), which is the whole key where a long has 4 bytes.  On x86_64,
for which the tree is configured, it has 8, and half of the round keys are
whatever was on the stack.  `DesInverts` is about both: a text is read back with
`long = 4`, and with `long = 8` every text is lost for some contents of the stack.
The services call `DesEnc` and `base64_encode` only, to make a token that is
hashed afterwards and compared as stored; nothing calls `DesDec` or
`base64_decode`.

## 3. The runs

Passing runs:

| Run | Specification and instance | Shows |
|---|---|---|
| `Content` | `Spec`; 2 users, 1 digest, 1 name; 4 requests among upload, instant upload, save, delete; 1 failing statement, 1 kill; users symmetric | `TypeOK`, `StorageBacksFileInfo`, `RowStaysForDelete`, `StorageInv`, `UserCountPositive`, `ZeroCountOnlyWhileDeleting`, `ImplementsContentStore` |
| `Shares` | `Spec`; 2 users, 1 file; 4 requests among share, cancel, delete, count, rank; 1 failing statement, 1 kill | `ShareUnique`, `SharePvNeverDecreases` |
| `Serial` | `SerialSpec`; 2 users, 1 digest, 2 names; 5 requests of all nine commands; 1 Redis loss | `RefCountExact`, `UserCountExact`, `UnreferencedWhenDropped`, `NoOrphans`, `ScoreAtMostDownloads`, `BooksInv`, `RedisInv`, `RefillMirrorsShares`, `ImplementsFileLibrary`, `AnswersAreTrue` |
| `Progress` | `FairSpec`; 1 user, 2 names; 3 requests among share, count, cancel, rank; 1 failing statement, 1 Redis loss | `Answered` |
| `UploadFork` | `MCSpec` of `MCUploadFork`; 7 process slots, 3 requests, the last two with one file name; 2 failing `execlp` for each and 1 kill, or 1 short write and 1 failing `execlp` | `TypeOK`, `OneRuns`, `RecordedIsStored`, `AnsweredOnce`, `CopiesRemoved`, `ForkInv`, `EachAnswered`, `Ready` |
| `Session` | `MCSpec`; 2 users, nicknames, passwords, clients; three mixes | `TypeOK`, `RegisterTrue`, `LoginTrue`, `ToldIsStored`, `ListedOnToken`, `WalkShowsAll` |
| `Helpers` | all texts up to 5 bytes, 5 DES words, 6 characters of a file name, 3 pairs of a query, 5 characters of a content | `Base64RoundTrip`, `DesInverts`, `SuffixExact`, `QueryValue`, `UploadParsed` |

Why the bounds are enough for the questions asked.  The reference count of a
digest is disturbed by at most three services at a time (upload, one adder, the
deleter), and four requests let a digest be uploaded, shared out, deleted and
uploaded again while another request is in progress.  Digests do not interact
except through a user's counter, so one digest is enough for `Content`; two
names in `Serial` give a user two files with one digest.  In `UploadFork` two
failing `execlp` make the longest way from one request to an empty file id, and
three requests let copies of copies take up later ones; the two with one name
let a kill mix them up.  A short write changes no step that follows it, so it is
checked (`Within` of `MCUploadFork`) without a kill and with one failing
`execlp`.  The mixes of `Session`
are: an existing account and a new one, registering and logging in under every
fault, with a name and a password or without; two accounts and clients whose
complete and incomplete requests share the buffers; and one client that walks three rows with pages of two while a row is
inserted, deleted or counted.  The walk needs a page that is not full, hence
the odd number of rows.  In `Helpers`, five bytes are a full base64 group and
each incomplete one; five DES words are every length modulo the block twice.

Fairness.  `Progress`: see `FairSpec` above.  `UploadFork`: weak fairness of
every process' own steps; the kernel runs a process that can run, the FastDFS
tools end, and `read` returns once the last writer of the pipe is gone.  Nothing
is assumed of kills, of `Start`, or of which way a fork, an `execlp` or a
statement goes.

What `UploadFork` and `Session` show of the code: without a kill at most one
copy of the upload service runs its code at any time, and the rest wait in a
chain, so no two of them ever serve concurrently and none waits for ever;
a row without file id takes two failing `execlp` for one request; a request may
be answered twice after one failing `execlp`, the second time always with 009
(`AnsweredOnce`).  A recorded file holds what the request sent unless its local
file was not written whole, or a process was killed: then the tool the dead
process started may store the file that a later request has saved under the same
name (`RecordedIsStored`).  Files are listed only on a token of their owner, even
where an incomplete request is served with a user and a token that two other
requests left in the buffers (`ListedOnToken`).  The pages of a user's files are complete without ORDER BY
unless a row is deleted during the walk, but with ORDER BY pv only when no two
counters are equal and nothing changes (`WalkShowsAll`): ties may put a row on
two pages or none.

Runs in which TLC finds the code in disagreement with its comments:

| Run | Property violated | What happens |
|---|---|---|
| `DeleteRace` | `UnreferencedWhenDropped` | an instant upload and a delete read count 1; the instant upload writes 2 and inserts its row, the delete writes 0 and goes on to remove the row of `file_info` and the content: a user owns a file that is gone |
| `DeleteTwice` | `UnreferencedWhenDropped` | one request at a time; a delete that is sent again decrements the reference count although the user's row had gone, and the content another user has is removed |
| `CoOwnerDelete` | `ShareCountExact` | a user deletes a copy of a file that another user shares: the share counter goes down, the share stays |
| `Repair` | `RedisHasWholeShare` | after Redis lost its data, `share_file` puts the member back without its name and with score 0 |
| `Membership` | `ExitTellsMembership` | ZLEXCOUNT on members with different scores returns 0 for a member |

More disagreements are in the actions but have no run of their own, as a single
call shows them: `rop_zset_increment` compares the new score with "OK", so
`pv_file` answers 017 after a download it has counted; a failing first SELECT
makes `deal_md5` answer 006; and a login without a password is answered 000, with
a token, for a name that has no account or when the SELECT fails.  `LoginTrue`
has this case: what 000 and 001 mean with a password, and what without.  `des.c` with longs
of eight bytes is in `DesInverts` (see Abstractions).

Reading the two kinds together: without faults and one request at a time the
bookkeeping is exact (`Serial`); under concurrency the counters lose updates,
but content never goes while a row of `file_info` names it
(`StorageBacksFileInfo`), a user counter never reaches 0, and no file is shared
twice unless the lookup in `share_file_list` fails, which `share_file` takes for
"not shared".

## 4. The proofs

For every set of users, digests, names and requests and every bound.  The
theorems about `Spec` hold with any interleaving, kill, failing statement and
Redis loss; the ones about `SerialSpec` are for requests that come one at a time
and as the pages offer them, and those that need it assume no fault (`NoFault`,
in the property itself or as a hypothesis of the theorem).

| Theorem | States | Argument |
|---|---|---|
| `TypeCorrect` | `Spec => []TypeOK` | with `StorageInv`, see below |
| `StorageCorrect`, `ContentStays`, `RowStays` | `[]StorageInv`, `[]StorageBacksFileInfo`, `[]RowStaysForDelete` | `StorageInv` is inductive with `TypeOK` |
| `ContentStoreImplemented` | `Spec => ImplementsContentStore` | with `StorageInv`, every action is a step of `ContentStore` or a stutter |
| `UserCountsPositive` | `[]UserCountPositive` | `CountInv`: a count a process is about to write back was read as at least 1 |
| `RefCountsPositive` | `[]ZeroCountOnlyWhileDeleting` | `RefCountInv`: the same for reference counts, and del_file's own between its statements |
| `SharesUnique` | `[]ShareUnique` | `UniqueInv`: from its lookup to its INSERT only share_file could add a row of the file |
| `SharePvGrows` | `SharePvNeverDecreases` | `PvInv`: what pv_file has read is at least the pv of every row it will write |
| `TokensTold` | `ToldIsStored` | `LoginInv`: from SETEX to the answer Redis has the token in hand or none |
| `LoginsTrue`, `RegistersTrue` | `LoginTrue`, `RegisterTrue` | `AccountInv`: accounts are never changed or removed, so what a SELECT found stays true, and an empty password was accepted only where there was no account when the request came in or a statement has failed |
| `ListsOnTokens` | `[]ListedOnToken` | Redis holds under a name only tokens made for it, and between the check and the SELECT nothing touches the buffers |
| `WalkCorrect`, `PagesShowAll` | `[]WalkInv`, `[]WalkShowsAll` | `WalkInv`: the rows shown are the first of the order, see below |
| `SessionTypes` | `[]TypeOK` of `MyFilesCgi` | `TokensInv`, `BufInv`: a user's tokens never outnumber the logins |
| `BooksBalance` | `SerialSpec => []BooksInv` | inductive with `TypeOK` and `StorageInv`, see below |
| `RefCountsExact`, `UserCountsExact`, `DroppedUnreferenced`, `NothingOrphaned` | `[]RefCountExact`, `[]UserCountExact`, `[]UnreferencedWhenDropped`, `[]NoOrphans`, of `SerialSpec` | from `BooksInv` |
| `RedisFollows`, `ScoresBounded` | `SerialSpec => []RedisInv`, `[]ScoreAtMostDownloads` | inductive with `BooksInv`, `UniqueInv` and `PvInv` |
| `RefillExact` | `SerialSpec /\ [](sqlErrs = 0) => RefillMirrorsShares` | `Refilled` of `RedisInv` |
| `AnswersTrue` | `SerialSpec /\ []NoFault => AnswersAreTrue` | from what `Knows` and `KnowsShares` say where each success is answered |
| `LibraryImplemented` | `SerialSpec /\ []NoFault => ImplementsFileLibrary` | with `BooksInv`, every statement is a step of `FileLibrary` or a stutter |
| `Base64Inverts`, `Base64Correct` | `base64_decode(base64_encode(b)) = b` for every `b \in Seq(0 .. 255)`; `[]Base64RoundTrip` | place by place, see below |
| `CipherReadBack` | the rounds with the keys of `DE1` undo those with the keys of `EN0` and the padding is found, for every text and integer key, with all 32 round keys | the rounds undo each other from the inside out, see below |
| `SuffixOf`, `SuffixCorrect` | `get_file_suffix` of a name over any alphabet; `[]SuffixExact` | a greatest place of a dot exists |
| `ContentCut` | `memstr` finds the boundary behind the content and its CRLF, for every boundary without a line end and every content without the boundary | an occurrence that began earlier would be in the content or have a line end in it |
| `ValueRead` | `query_parse_key_value` returns what stands between "=" and the next "&", "#" or the end, when the key is the first place its text is found | the least place of an end is the one behind the value |
| `ForkTypeCorrect`, `ChainsKept` | `[]TypeOK`, `[]ForkInv` of `UploadFork` | inductive together with the four below |
| `OneProcessRuns`, `RecordedStored`, `AnswersOnce`, `CopiesUnlinked` | `[]OneRuns`, `[]RecordedIsStored`, `[]AnsweredOnce`, `[]CopiesRemoved` | see below |

`StorageBacksFileInfo` is not inductive.  `del_file` deletes the row of
`file_info` first and the content afterwards, by a file id it has copied, while
uploads go on; one must know that this id is in no row that appeared since.
`StorageInv` says so: ids are below `nextFid`; two rows never share an id; the
id an upload has in hand (`up_info`) is stored and in no row; the id `del_file`
is about to remove (`de_store`) is in no row and is not the one of the upload;
and between reading the count and deleting the row, the row stays, with the id
`del_file` has copied (`RowStaysForDelete`), because no other process deletes
rows of `file_info`.  `TypeOK` in turn needs `RowStaysForDelete` (the file id
selected is a number), so the two are proved together (`NextInv`).  A step that
neither moves the upload or the delete in hand nor makes or removes a row keeps
`StorageInv` (`QuietStep`), which disposes of most actions; six remain.

`BooksInv`.  Within a request the tables disagree: `upload_cgi.c` counts a
reference in `file_info` before the user's row is there, and counts the row for
the user after it; `del_file` does both the other way round.  `RefDue` and
`UserDue` say, from the program point, what the handler at work still owes, and
`Books` that every counter is the cardinality of its rows up to that.  A handler
writes back what it read earlier, so the invariant also has what each one has
found out (`Knows`: has the user the file, is the count in hand still the one in
the table) and, for `NoOrphans`, who has a file in hand that no row names
(`Stored`).  All of it rests on `Alone`: one handler works at a time.  The proof
needs one step per statement; the cardinalities change by one because a user has
a file once, which is a conjunct too.

`RedisInv`.  `Refilled` follows the import of the ranking row by row: the members
so far are the rows no longer in `todo`, at their download counters.  `Scores`
bounds a score by the counter in MySQL except between the INSERT and the ZADD of
`share_file`, where the member of an earlier share may still be there; and
`KnowsShares` has what `pv_file` read, so that the increment in Redis follows the
one in MySQL.

`ForkInv`.  `OneRuns` by itself says nothing about who waits.  `Chains` says that
a process in `read` has one child, and what that child will print; `AllKnow` what
a process at each point knows of its request (a file id it holds is that of the
request and in FastDFS, and where it holds none an `execlp` has failed); `OwnFiles`
that without a kill the file of a request at work is its own;
`OneOwner` that a request for which none has failed is in the hands of one
process; and `TailMoves` that without a kill only the end of the chain moves and
its request is unanswered.  The actions are first sorted into kinds by what they
do to the chain (`StepKinds`: accept, fork, become a tool or a copy, read what
the child has printed, answer, die), and each kind keeps each conjunct.

`WalkInv`.  The rank of a row is the number of rows ahead of it in the order of
the command; each row shown is at the place of its rank.  A page starts behind
the rows shown (`PageInv`), and a page cut from any order MySQL may return shows
the rows of the next ranks (`PageRank`), since a row's place in such an order is
its rank when the order has no ties (`OrderRank`).  A row inserted gets the
largest number and changes no rank by number; a download changes none either; all
else makes the walk one that `Calm` excludes.  At the empty page as many rows
have been shown as there are, at different ranks, so the map from places to rows
is a bijection.

`Helpers`.  `base64_encode`, `base64_decode` and `myic_DES` give each place of their
result from the few places of their input it depends on, as the loops of the code
do turn by turn, so no induction is needed.  The digits of a group of three bytes
put the bytes together again (`ByteParts` and the lemmas after it); a "=" is in the
last group only, where the decoder looks for it.  For DES, a turn of the loop with
the keys of `DE1`, between two swaps of the halves, undoes the turn with the
mirrored keys of `EN0` (`TurnUndone`, because xor undoes itself), the eight turns
undo each other in reverse order (`BlockUndone`), the order of the keys is mirrored
(`KeysReversed`); the padding ends with its own length (`Padded`).  Which of the
keys are copied is left to the run (`DesInverts`).  The theorems are about the
model's words of two bits and its small F and permutations, and what they use of
those is that the results are words and that FP undoes IP.

Layout.  Every step lemma says of one statement that it keeps one conjunct or
group of conjuncts; a theorem's last step joins them by the disjuncts of `Next`.
`Counted` has what the steps of `ServiceProofs` need of the books, and
`BooksCounted` derives it from `BooksInv`, so that the two modules do not depend on
each other.  A leaf is left to Zenon unless it cites another prover (`USE Zenon`);
leaves with arithmetic, records or tuples cite `SMT`.

Assumptions, all in the modules that declare the constants: requests are
records of the four fields; digests and names are finite; `Rank` is injective;
`ShareKey` is no user's name; the "null" values differ from data; bounds are
natural numbers; the page has a size.  TLC evaluates them in every run.

Model-checked only: `Answered`, `EachAnswered` and `Ready`, because liveness is
beyond this prover; and `DesInverts`, `QueryValue` and `UploadParsed` of `Helpers`.
That a text is lost where a long has 8 bytes depends on the small F of the model.
The query of `QueryValue` is put together from a sequence of pairs and the size in
`UploadParsed` is read digit by digit, so that a proof of either would be an induction over data.  `ValueRead`
and `ContentCut` prove the part of each that does not depend on it: the end of the
value and the end of the content.

## 5. Not modelled

* `get_share_files_count` and `get_share_filelist` of `sharefiles_cgi.c`: one
  SELECT each, of the shape of those in `MyFilesCgi`; they change nothing.
* The request loops of the other services: they have the shape of the one in
  `MyFilesCgi`, including buffers that outlive a request.
* `str_replace`, the list, counter and bulk wrappers of `redis_op.c`: no caller.
* Descriptors and zombies that failed uploads leave behind: the model has the
  fork that fails, not what runs out.
* The tables of DES, MD5 and cJSON: pure functions of large data, used as
  libraries.
* Configuration and log files: pure I/O.
* Redis, FastDFS, nginx, libfcgi, hiredis and spawn-fcgi are kept in the tree as
  sources, more than 99% of its 900,000 lines.  They are modelled by what their
  commands do for the services (and `zzlInsert` and ZLEXCOUNT of `t_zset.c`,
  `fdfs_upload_file` and `fdfs_file_info`, on which a property depends), not
  from inside.
