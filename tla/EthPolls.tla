------------------------------- MODULE EthPolls -------------------------------
(***************************************************************************)
(* What the query server tells Ethereum clients of blocks: the filters     *)
(* they install and poll (eth/polls), the searches for blocks and          *)
(* transactions (eth/query), and the cache of Tendermint's block store     *)
(* (store/block_store*.go) that both read through.  Requests run           *)
(* concurrently with each other and with the blocks; the client of a       *)
(* filter waits for an answer before it polls again.                       *)
(***************************************************************************)
EXTENDS Integers, Sequences, FiniteSets, SequencesExt, Functions, TLC

CONSTANTS
  Ids,           \* ids GetId draws, each once
  Chain,         \* the transactions of each block: [evm, logs], the topics of what it logs
  Filters,       \* the log filters clients install: from, to, and a set of topics
  BlockTimeout,  \* blocks after which a filter that is not polled is dropped
  Limit,         \* most blocks of one range, and the size of a search step
  CacheSize,     \* entries of the cache, zero for CacheAlgorithm "None"
  MaxCrashes     \* bound on restarts

Heights == 1 .. Len(Chain)

VARIABLES
  height,      \* last committed block
  cache,       \* the block store cache: an entry for each cached key
  polls,       \* EthSubscriptions: the filters, by id,
  lastPoll,    \*   the height each was last polled at,
  timestamps,  \*   and the filters last polled at each height
  calls,       \* the polls being answered: the snapshot's height, the filter, the method
  crashes,     \* restarts so far
  reported,    \* history: all that was reported for each id
  seen,        \* history: the height of the last answer of each id still installed
  partial      \* history: block filters polled too late for one range, transaction filters
               \*   polled by LegacyPoll, filters removed

vars == <<height, cache, polls, lastPoll, timestamps, calls, crashes, reported, seen, partial>>

historyVars == <<reported, seen, partial>>

Init ==
  /\ height = 1 /\ cache = <<>>
  /\ polls = <<>> /\ lastPoll = <<>>
  /\ timestamps = [h \in 0 .. Len(Chain) |-> <<>>]
  /\ calls = <<>> /\ crashes = 0
  /\ reported = [id \in Ids |-> <<>>] /\ seen = <<>> /\ partial = {}

-----------------------------------------------------------------------------
\* The block store

\* A block as TendermintBlockStore returns it: its hash and time, here both the
\* height, and a header whose Height is left zero.
TendermintBlock(h) == [hash |-> h, time |-> h, height |-> 0]

\* Mutated GetBlockByHeight: the height asked for is not copied from its pointer.
BlockOfNil(h) == IF <<"B", 0>> \in DOMAIN cache THEN cache[<<"B", 0>>] ELSE TendermintBlock(h)

\* GetBlockByHeight: entries are looked up by the height asked for ...
GetBlockByHeight(h) == IF <<"B", h>> \in DOMAIN cache THEN cache[<<"B", h>>] ELSE TendermintBlock(h)

\* ... and added by the height in the header.
BlockEntry(h) == <<"B", TendermintBlock(h).height>> :> TendermintBlock(h)

\* GetBlockResults, in the same way: the kinds of the transactions of a block.
TendermintResults(h) == [results |-> [i \in DOMAIN Chain[h] |-> Chain[h][i].evm], height |-> 0]

GetBlockResults(h) ==
  IF <<"R", h>> \in DOMAIN cache THEN cache[<<"R", h>>] ELSE TendermintResults(h)

ResultsEntry(h) == <<"R", TendermintResults(h).height>> :> TendermintResults(h)

\* core.BlockchainInfo: the last Limit blocks of a range, the latest first.
BlockchainInfo(min, max) ==
  LET last == IF max < height THEN max ELSE height
      first == IF min > last - Limit + 1 THEN min ELSE last - Limit + 1
  IN [i \in 1 .. last - first + 1 |-> last - i + 1]

\* GetBlockRangeByHeight of the caches, block by block, the earliest first.
CachedRange(min, max) ==
  LET first == IF max - min > Limit THEN max - Limit + 1 ELSE min
  IN [i \in 1 .. max - first + 1 |->
       LET key == <<"M", first + i - 1>> IN
       IF key \in DOMAIN cache THEN cache[key] ELSE BlockchainInfo(key[2], key[2])[1]]

GetBlockRangeByHeight(min, max) ==
  IF CacheSize = 0 THEN BlockchainInfo(min, max) ELSE CachedRange(min, max)

MetaEntries(metas) == [key \in {<<"M", metas[i]>> : i \in DOMAIN metas} |-> key[2]]

\* The cache after an entry is added; LRU and 2Q differ in what they drop.
Filled(entries) ==
  IF CacheSize = 0
    THEN {<<>>}
    ELSE LET all == entries @@ cache
             size == IF Cardinality(DOMAIN all) < CacheSize THEN Cardinality(DOMAIN all) ELSE CacheSize
         IN {Restrict(all, keys) : keys \in {k \in SUBSET DOMAIN all : Cardinality(k) = size}}

\* The search for a hash, downwards from the last block: the height, zero when it
\* is not found, and the headers it read.
Search(hash) ==
  LET search[start \in 0 .. Len(Chain)] ==
        LET end == IF start > Limit THEN start - Limit ELSE 1
            metas == GetBlockRangeByHeight(end, start)
            rest == IF end = 1 THEN [found |-> 0, read |-> <<>>] ELSE search[end]
        IN IF start = 0 THEN [found |-> 0, read |-> <<>>]
           ELSE IF hash \in Range(metas) THEN [found |-> hash, read |-> metas]
           ELSE [rest EXCEPT !.read = metas \o @]
  IN search[height]

GetBlockHeightFromHash(hash) == Search(hash).found

\* GetTxHashList: the hashes of the EVM transactions of a block, from the state.
GetTxHashList(h) ==
  LET evm == SelectSeq([i \in DOMAIN Chain[h] |-> i], LAMBDA i : Chain[h][i].evm)
  IN [k \in DOMAIN evm |-> <<h, evm[k]>>]

\* GetBlockByNumber: header from the block store, transactions from the state.
GetBlockByNumber(h) ==
  [hash |-> GetBlockByHeight(h).hash, time |-> GetBlockByHeight(h).time, txs |-> GetTxHashList(h)]

\* The deprecated answer; number zero stands for the last block.
DeprecatedGetBlockByNumber(h) ==
  [hash |-> GetBlockByHeight(h).hash, time |-> GetBlockByHeight(h).time,
   number |-> IF h = height THEN 0 ELSE h, txs |-> GetTxHashList(h)]

DeprecatedGetBlockByHash(hash) == DeprecatedGetBlockByNumber(Search(hash).found)

\* The places of EVM transactions in the results of a block.
EvmResults(h) ==
  SelectSeq([i \in DOMAIN GetBlockResults(h).results |-> i], LAMBDA i : GetBlockResults(h).results[i])

GetNumEvmTxBlock(h) == Len(EvmResults(h))

\* GetTxByBlockAndIndex: indexes count EVM transactions only.
GetTxByBlockAndIndex(h, index) == <<h, EvmResults(h)[index + 1]>>

-----------------------------------------------------------------------------
\* Logs

\* DecBlockHeight, of a tag.
DecBlockHeight(last, tag) ==
  CASE tag = "earliest" -> 1
    [] tag = "latest" -> last
    [] tag = "pending" -> last + 1

\* MatchBdiademFilter: the bloom filter of a block holds all its topics.
MatchBdiademFilter(topics, h) ==
  topics = {} \/ \E i \in DOMAIN Chain[h] : Range(Chain[h][i].logs) \cap topics # {}

\* getTxHashLogs, with the time of the block the receipt names.
getTxHashLogs(topics, h, i) ==
  LET logs == [j \in DOMAIN Chain[h][i].logs |-> [log |-> <<h, i, j>>, time |-> GetBlockByHeight(h).time]]
  IN SelectSeq(logs, LAMBDA l : topics = {} \/ Chain[h][i].logs[l.log[3]] \in topics)

\* GetBlockLogs; a block the snapshot has not seen has no bloom filter.
GetBlockLogs(last, topics, h) ==
  IF h > last \/ ~MatchBdiademFilter(topics, h)
    THEN <<>>
    ELSE FlattenSeq([k \in DOMAIN GetTxHashList(h) |-> getTxHashLogs(topics, h, GetTxHashList(h)[k][2])])

GetBlockLogRange(last, topics, from, to) ==
  FlattenSeq([k \in 1 .. to - from + 1 |-> GetBlockLogs(last, topics, from + k - 1)])

\* What a log query leaves in the cache: the last block it took the time of.
LogEntries(last, topics, from, to) ==
  LET timed == {h \in from .. (IF to > last THEN last ELSE to) :
                  MatchBdiademFilter(topics, h) /\ \E i \in DOMAIN Chain[h] : Chain[h][i].logs # <<>>}
  IN IF timed = {} THEN <<>> ELSE BlockEntry(CHOOSE h \in timed : \A g \in timed : g <= h)

-----------------------------------------------------------------------------
\* Polls: each returns the filter afterwards, what it reports and what it caches

Unchanged(p) == [poll |-> p, items |-> <<>>, entries |-> <<>>]

\* Mutated EthLogPoll.Poll: the last block read is read again.
LogPollAgain(p, last) ==
  LET from == DecBlockHeight(last, p.filter.from)
      to == DecBlockHeight(last, p.filter.to)
      start == IF from < p.last THEN p.last ELSE from
  IN IF from > to \/ start > to
       THEN Unchanged(p)
       ELSE [poll |-> [p EXCEPT !.last = to],
             items |-> GetBlockLogRange(last, p.filter.topics, start, to),
             entries |-> LogEntries(last, p.filter.topics, start, to)]

\* EthLogPoll.Poll.
LogPoll(p, last) ==
  LET from == DecBlockHeight(last, p.filter.from)
      to == DecBlockHeight(last, p.filter.to)
      start == IF from <= p.last THEN p.last + 1 ELSE from
  IN IF from > to \/ start > to
       THEN Unchanged(p)
       ELSE [poll |-> [p EXCEPT !.last = to],
             items |-> GetBlockLogRange(last, p.filter.topics, start, to),
             entries |-> LogEntries(last, p.filter.topics, start, to)]

\* EthLogPoll.LegacyPoll fails where Poll reports nothing.
LegacyLogPoll(p, last) == LogPoll(p, last)

\* EthBlockPoll.Poll and getBlockHashes.
BlockPoll(p, last) ==
  IF p.last + 1 > last
    THEN Unchanged(p)
    ELSE LET metas == GetBlockRangeByHeight(p.last + 1, last) IN
         [poll |-> [p EXCEPT !.last = Max(Range(metas) \cup {@})],
          items |-> metas, entries |-> MetaEntries(metas)]

\* EthBlockPoll.LegacyPoll.
LegacyBlockPoll(p, last) == BlockPoll(p, last)

\* getTxHashes: the blocks before that of the snapshot.
getTxHashes(from, last) == FlattenSeq([k \in 1 .. last - from |-> GetTxHashList(from + k - 1)])

\* EthTxPoll.Poll.
TxPoll(p, last) ==
  IF p.last + 1 > last
    THEN Unchanged(p)
    ELSE [poll |-> [p EXCEPT !.last = last - 1], items |-> getTxHashes(p.last + 1, last),
          entries |-> <<>>]

\* EthTxPoll.LegacyPoll: the block of the snapshot counts as read.
LegacyTxPoll(p, last) ==
  IF p.last + 1 > last
    THEN Unchanged(p)
    ELSE [poll |-> [p EXCEPT !.last = last], items |-> getTxHashes(p.last + 1, last),
          entries |-> <<>>]

PollOf(call) ==
  LET p == call.poll
      last == call.height
  IN CASE p.kind = "log" -> IF call.legacy THEN LegacyLogPoll(p, last) ELSE LogPoll(p, last)
       [] p.kind = "block" -> IF call.legacy THEN LegacyBlockPoll(p, last) ELSE BlockPoll(p, last)
       [] p.kind = "tx" -> IF call.legacy THEN LegacyTxPoll(p, last) ELSE TxPoll(p, last)

-----------------------------------------------------------------------------
\* EthSubscriptions

Without(f, ids) == Restrict(f, DOMAIN f \ ids)

\* pruneSubs: the filters last polled before height - BlockTimeout.
Expired(stamps, h) ==
  UNION {Range(stamps[g]) : g \in {g \in DOMAIN stamps : g < h - BlockTimeout}}

\* Add, with pruneSubs and its Remove.
Add(id, poll) ==
  LET stamps == [timestamps EXCEPT ![height] = Append(@, id)]
      expired == Expired(stamps, height)
  IN /\ polls' = Without((id :> poll) @@ polls, expired)
     /\ lastPoll' = Without((id :> height) @@ lastPoll, expired)
     /\ timestamps' = [g \in DOMAIN stamps |-> IF g < height - BlockTimeout THEN <<>> ELSE stamps[g]]
     /\ seen' = (id :> height) @@ seen
     /\ UNCHANGED <<height, cache, calls, crashes, reported, partial>>

\* Ids are drawn in some order, which does not matter.
Fresh(id) == reported[id] = <<>> /\ id \notin DOMAIN seen \cup partial \cup DOMAIN polls

AddLogPoll(id) ==
  \E f \in Filters : Fresh(id) /\ Add(id, [kind |-> "log", filter |-> f, start |-> 0, last |-> 0])

AddBlockPoll(id) == Fresh(id) /\ Add(id, [kind |-> "block", start |-> height, last |-> height])

AddTxPoll(id) == Fresh(id) /\ Add(id, [kind |-> "tx", start |-> height, last |-> height])

\* Poll or LegacyPoll: the snapshot is taken and the filter looked up.
StartPoll(id, legacy) ==
  /\ id \in DOMAIN polls /\ id \notin DOMAIN calls
  /\ calls' = (id :> [height |-> height, poll |-> polls[id], legacy |-> legacy]) @@ calls
  /\ UNCHANGED <<height, cache, polls, lastPoll, timestamps, crashes, reported, seen, partial>>

\* Mutated resetTimestamp: the filter keeps its earlier timestamp.
resetNoTimestamp(id, h) ==
  /\ lastPoll' = (id :> h) @@ lastPoll
  /\ timestamps' = [timestamps EXCEPT ![h] = Append(@, id)]

resetTimestamp(id, h) ==
  LET lp == IF id \in DOMAIN lastPoll THEN lastPoll[id] ELSE 0
      stamps == [timestamps EXCEPT ![lp] = SelectSeq(@, LAMBDA i : i # id)]
  IN /\ lastPoll' = (id :> h) @@ lastPoll
     /\ timestamps' = [stamps EXCEPT ![h] = Append(@, id)]

\* The poll is answered.  The receipt of a log may have been dropped from the
\* receipts database; the filter then stays as it was.
FinishPoll(id) ==
  /\ id \in DOMAIN calls
  /\ \E r \in {PollOf(calls[id])} \cup
             (IF calls[id].poll.kind = "log" THEN {Unchanged(calls[id].poll)} ELSE {}) :
       /\ polls' = (id :> r.poll) @@ polls
       /\ reported' = [reported EXCEPT ![id] = @ \o r.items]
       /\ cache' \in Filled(r.entries)
  /\ resetTimestamp(id, calls[id].height)
  /\ seen' = (id :> calls[id].height) @@ seen
  /\ partial' = IF \/ calls[id].poll.kind = "tx" /\ calls[id].legacy
                   \/ calls[id].poll.kind = "block" /\ calls[id].height - calls[id].poll.last > Limit
                  THEN partial \cup {id} ELSE partial
  /\ calls' = Without(calls, {id})
  /\ UNCHANGED <<height, crashes>>

\* Remove, for eth_uninstallFilter.
RemovePoll(id) ==
  /\ id \in DOMAIN polls /\ id \notin DOMAIN calls
  /\ polls' = Without(polls, {id}) /\ lastPoll' = Without(lastPoll, {id})
  /\ seen' = Without(seen, {id}) /\ partial' = partial \cup {id}
  /\ UNCHANGED <<height, cache, timestamps, calls, crashes, reported>>

\* What a query leaves behind is what it put in the cache.
Fills(entries) ==
  /\ cache' \in Filled(entries)
  /\ UNCHANGED <<height, polls, lastPoll, timestamps, calls, crashes, historyVars>>

\* By hash, the headers of the search, and what the query reads of the block found.
FillsByHash(hash, entries) ==
  \E s \in {Search(hash)} :
    Fills(MetaEntries(s.read) @@ (IF s.found = 0 THEN <<>> ELSE entries[s.found]))

EthGetBlockByNumber(h) == h <= height /\ Fills(BlockEntry(h))

EthGetBlockByHash(hash) == hash <= height /\ FillsByHash(hash, [h \in Heights |-> BlockEntry(h)])

\* Logs carry the time of the block.
EthGetTransactionReceipt(h) ==
  h <= height /\ (\E i \in DOMAIN Chain[h] : Chain[h][i].logs # <<>>) /\ Fills(BlockEntry(h))

EthGetBlockTransactionCountByNumber(h) == h <= height /\ Fills(ResultsEntry(h))

EthGetBlockTransactionCountByHash(hash) == hash <= height /\ FillsByHash(hash, [h \in Heights |-> ResultsEntry(h)])

\* QueryChain.
EthGetLogs(filter) ==
  Fills(LogEntries(height, filter.topics, DecBlockHeight(height, filter.from), DecBlockHeight(height, filter.to)))

CommitBlock ==
  /\ height < Len(Chain)
  /\ height' = height + 1
  /\ UNCHANGED <<cache, polls, lastPoll, timestamps, calls, crashes, historyVars>>

\* A restart: nothing of the query server is stored.
Crash ==
  /\ crashes < MaxCrashes /\ crashes' = crashes + 1
  /\ cache' = <<>> /\ polls' = <<>> /\ lastPoll' = <<>> /\ calls' = <<>>
  /\ timestamps' = [h \in DOMAIN timestamps |-> <<>>]
  /\ seen' = <<>> /\ partial' = partial \cup DOMAIN polls
  /\ UNCHANGED <<height, reported>>

Next ==
  \/ CommitBlock \/ Crash
  \/ \E h \in Heights :
       \/ EthGetBlockByNumber(h) \/ EthGetBlockByHash(h) \/ EthGetTransactionReceipt(h)
       \/ EthGetBlockTransactionCountByNumber(h) \/ EthGetBlockTransactionCountByHash(h)
  \/ \E f \in Filters : EthGetLogs(f)
  \/ \E id \in Ids :
       \/ AddLogPoll(id) \/ AddBlockPoll(id) \/ AddTxPoll(id)
       \/ \E legacy \in BOOLEAN : StartPoll(id, legacy)
       \/ FinishPoll(id) \/ RemovePoll(id)

Spec == Init /\ [][Next]_vars

-----------------------------------------------------------------------------
\* Properties

\* All that a filter with this poll has reported, when nothing was passed over.
Expected(p) ==
  CASE p.kind = "log" ->
         {[log |-> <<h, i, j>>, time |-> h] :
            <<h, i, j>> \in {x \in Heights \X (1 .. 2) \X (1 .. 2) :
               /\ x[1] <= p.last /\ x[2] \in DOMAIN Chain[x[1]]
               /\ x[3] \in DOMAIN Chain[x[1]][x[2]].logs
               /\ p.filter.topics = {} \/ Chain[x[1]][x[2]].logs[x[3]] \in p.filter.topics}}
    [] p.kind = "block" -> p.start + 1 .. p.last
    [] p.kind = "tx" -> UNION {Range(GetTxHashList(h)) : h \in p.start + 1 .. p.last}

\* "Get the logs since last poll" (eth_getFilterChanges): whatever the filters,
\* blocks, cache and other requests do meanwhile, nothing is reported twice, and
\* a filter reports everything up to the block it has read, logs with the time
\* of their block.  Excepted are what the code passes over: blocks when a filter
\* of blocks is not polled for more than Limit of them, the transactions of the
\* block LegacyPoll is called at, and logs outside the blocks a filter asks for.
ReportedOnce ==
  \A id \in DOMAIN polls :
    /\ IsInjective(reported[id])
    /\ \/ id \in partial
       \/ polls[id].kind = "log" /\ polls[id].filter # [polls[id].filter EXCEPT !.from = "earliest", !.to = "latest"]
       \/ Range(reported[id]) = Expected(polls[id])

\* BlockTimeout: a filter that was answered within the last BlockTimeout blocks
\* is still installed, whatever polls and prunes overlapped.
LivePollsKept ==
  \A id \in DOMAIN seen : seen[id] >= height - BlockTimeout => id \in DOMAIN polls

\* The block a search passes over: without a cache the last step asks for Limit + 1
\* blocks and gets the latest Limit, and the first block is the one left out.
PassedOver(h) == h = 1 /\ CacheSize = 0 /\ height > Limit /\ height % Limit = 1

\* Blocks are found by number and by hash, and are the chain's, and the
\* transactions of a block are those found by their index in it, whatever the
\* cache holds and wherever its ranges end.
QueriesTrue ==
  \A h \in 1 .. height :
    /\ GetBlockByNumber(h).hash = h /\ GetBlockByNumber(h).time = h
    /\ GetBlockHeightFromHash(h) = IF PassedOver(h) THEN 0 ELSE h
    /\ PassedOver(h) \/ DeprecatedGetBlockByHash(h).hash = h
    /\ GetBlockByNumber(h).txs = [i \in 1 .. GetNumEvmTxBlock(h) |-> GetTxByBlockAndIndex(h, i - 1)]

=============================================================================
