------------------------------- MODULE Shares -------------------------------
(***************************************************************************)
(* Searching and verifying shares on the CPU (ethash.cpp, progpow.cpp):    *)
(* hash() with a light context, which calculates the items of the dataset  *)
(* it needs, and with a full one, which keeps them once calculated;        *)
(* search() over a block of nonces, as CPUMiner calls it; verify().        *)
(*                                                                         *)
(* n is the number of nodes of an item: 2 for ethash, 4 for ProgPoW, whose *)
(* dataset is the same memory in items of twice the size.  ProgPow models  *)
(* hash_mix; here it is a mix over its items like that of ethash.          *)
(***************************************************************************)
EXTENDS Dataset, FiniteSets

CONSTANTS Accesses,     \* num_dataset_accesses   (64)
          NonceSpace,   \* values of a nonce      (2^64)
          Block         \* blocksize              (30)

MixWords(n) == n * NodeWords

\* hash_seed, and hash_final / keccak_progpow_256, of which one word is kept
hash_seed(header, nonce) == Keccak512(<<header, nonce % Size, nonce \div Size, 1>>)
hash_final(seed, mix_hash) ==
  Keccak512(<<seed[1] ^^ mix_hash[1], seed[2] ^^ mix_hash[2], seed[3], seed[4]>>)[1]

\* The words of an item, node after node, and all the items of a dataset, as
\* calculate_dataset_item_1024 and _2048 give them: a context's item below.
ItemWords(n, nodes) ==
  [k \in 1..MixWords(n) |-> nodes[(k - 1) \div NodeWords][((k - 1) % NodeWords) + 1]]
LightItems(n, cache, items) ==
  [p \in 0..items - 1 |-> ItemWords(n, calculate_dataset_item(n, cache, p))]
ZeroItem(n) == [k \in 1..MixWords(n) |-> 0]

\* Mutant of Stored: the item is kept for the next index.
StoredNext(ctx, data, p) ==
  IF data[p][1] = 0 /\ data[p][2] = 0
  THEN [data EXCEPT ![(p + 1) % ctx.items] = ctx.item[p]]
  ELSE data

\* lazy_lookup: the dataset after item p was looked up; an item whose first
\* 64 bits are zero counts as not calculated.
Stored(ctx, data, p) ==
  IF data[p][1] = 0 /\ data[p][2] = 0
  THEN [data EXCEPT ![p] = ctx.item[p]]
  ELSE data

\* One access of the kernel: a light context has no dataset and calculates.
ItemMixed(ctx, data, item, mix) ==
  [data |-> data, mix |-> [k \in 1..MixWords(ctx.n) |-> fnv(mix[k], item[k])]]
FullMixed(ctx, data, p, mix) == ItemMixed(ctx, data, data[p], mix)
Access(ctx, st, p) ==
  IF st.data = None THEN ItemMixed(ctx, None, ctx.item[p], st.mix)
  ELSE FullMixed(ctx, Stored(ctx, st.data, p), p, st.mix)

RECURSIVE Accessed(_, _, _, _)
Accessed(ctx, i, seed, st) ==
  IF i = Accesses THEN st
  ELSE Accessed(ctx, i + 1, seed,
         Access(ctx, st, fnv((i ^^ seed[1]) % Size, st.mix[(i % MixWords(ctx.n)) + 1]) % ctx.items))

\* hash_kernel: the mix, four words of which become one, and the dataset
Compressed(n, st) ==
  [mix_hash |-> [j \in 1..n |-> fnv(fnv(fnv(st.mix[4 * j - 3], st.mix[4 * j - 2]), st.mix[4 * j - 1]),
                                    st.mix[4 * j])],
   data |-> st.data]
hash_kernel(ctx, data, seed) ==
  Compressed(ctx.n, Accessed(ctx, 0, seed,
    [data |-> data, mix |-> [k \in 1..MixWords(ctx.n) |-> seed[((k - 1) % NodeWords) + 1]]]))

\* hash(): the result, and the dataset after it
Finished(seed, r) ==
  [final |-> hash_final(seed, r.mix_hash), mix_hash |-> r.mix_hash, data |-> r.data]
SeedHashed(ctx, data, seed) == Finished(seed, hash_kernel(ctx, data, seed))
Hashed(ctx, data, header, nonce) == SeedHashed(ctx, data, hash_seed(header, nonce))

\* search(): the nonces up to end, which is start + iterations in 64 bits.
RECURSIVE SearchFrom(_, _, _, _, _, _)
SearchFrom(ctx, job, nonce, end, data, r) ==
  CASE nonce >= end -> [found |-> FALSE, nonce |-> 0, mix_hash |-> <<>>, data |-> data]
    [] nonce < end /\ r.final <= job.boundary ->
         [found |-> TRUE, nonce |-> nonce, mix_hash |-> r.mix_hash, data |-> r.data]
    [] nonce < end /\ r.final > job.boundary ->
         SearchFrom(ctx, job, nonce + 1, end, r.data, Hashed(ctx, r.data, job.header, nonce + 1))
search(ctx, job, data, start) ==
  SearchFrom(ctx, job, start, (start + Block) % NonceSpace, data, Hashed(ctx, data, job.header, start))

\* verify(): the cheap half first
verify(ctx, job, mix_hash, nonce) ==
  LET seed == hash_seed(job.header, nonce)
  IN  /\ hash_final(seed, mix_hash) <= job.boundary
      /\ hash_kernel(ctx, None, seed).mix_hash = mix_hash

-----------------------------------------------------------------------------
\* CPUMiner::search on one full context: a job, the next nonce, the dataset so
\* far and the last call's start and result.
Mining(n, cache, items, job, start) ==
  [ctx |-> [n |-> n, items |-> items, item |-> LightItems(n, cache, items)],
   job |-> job, next |-> start, start |-> start, data |-> [p \in 0..items - 1 |-> ZeroItem(n)],
   result |-> [found |-> FALSE, nonce |-> 0, mix_hash |-> <<>>], called |-> FALSE]

Searching(s, r) ==
  [s EXCEPT !.data = r.data, !.start = s.next, !.next = (@ + Block) % NonceSpace,
            !.result = [found |-> r.found, nonce |-> r.nonce, mix_hash |-> r.mix_hash],
            !.called = TRUE]
SearchStep(s) == Searching(s, search(s.ctx, s.job, s.data, s.next))

\* The nonces of the last call: none, if the block went past the last nonce.
Searched(s) == s.start..(((s.start + Block) % NonceSpace) - 1)

Good(s, nonce) == Hashed(s.ctx, None, s.job.header, nonce).final <= s.job.boundary
=============================================================================
