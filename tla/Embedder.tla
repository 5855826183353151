------------------------------ MODULE Embedder ------------------------------
(***************************************************************************)
(* The embedder of the server: retries around a cache around a provider.   *)
(*                                                                         *)
(* A vector is the text it embeds.  The cache is a sequence of entries,    *)
(* the least recently used one first.                                      *)
(***************************************************************************)
EXTENDS Integers, Sequences

CONSTANTS
    MaxRetries, InitialDelay, MaxDelay,   \* RetryConfig
    Capacity,                             \* of the cache
    None

Seqs == INSTANCE SequencesExt

-----------------------------------------------------------------------------
(* Providers.  An answer has an embedding and a number of tokens, or an error. *)

Answered(text, tokens) == [embedding |-> text, tokens |-> tokens, error |-> None]
FailedWith(error) == [embedding |-> None, tokens |-> None, error |-> error]

\* send() fails, or the time configured for it has passed.
RequestFailed == FailedWith("RequestFailed")

\* Tokens are always reported; a status of 401 or 429 has an error of its own.
OpenAIEmbed(text) ==
    {Answered(text, 1), RequestFailed} \union
    {FailedWith(e) : e \in {"AuthenticationFailed", "RateLimitExceeded", "ApiError",
                            "InvalidResponse"}}

OllamaEmbed(text) ==
    {Answered(text, None), RequestFailed, FailedWith("ApiError"), FailedWith("InvalidResponse")}

LocalEmbed(text) ==
    {Answered(text, 1), Answered(text, None), RequestFailed, FailedWith("ApiError"),
     FailedWith("InvalidResponse")}

ProviderEmbed(provider, text) ==
    CASE provider = "openai" -> OpenAIEmbed(text)
      [] provider = "ollama" -> OllamaEmbed(text)
      [] provider = "local" -> LocalEmbed(text)

\* What each provider cannot be created without.
OpenAINew(env) == "OPENAI_API_KEY" \in DOMAIN env
LocalNew(env) == "EMBEDDING_BASE_URL" \in DOMAIN env

\* create_embedder does not end in a ConfigError.
CreateEmbedder(env) ==
    /\ env.EMBEDDING_PROVIDER \in {"openai", "ollama", "local"}
    /\ env.EMBEDDING_PROVIDER = "openai" => OpenAINew(env)
    /\ env.EMBEDDING_PROVIDER = "local" => LocalNew(env)

-----------------------------------------------------------------------------
(* The cache. *)

Keys(cache) == {cache[i].text : i \in DOMAIN cache}
Place(cache, text) == CHOOSE i \in DOMAIN cache : cache[i].text = text
Entry(cache, text) == cache[Place(cache, text)]
WithoutText(cache, text) ==
    IF text \in Keys(cache) THEN Seqs!RemoveAt(cache, Place(cache, text)) ELSE cache

\* get makes the entry the most recently used one.
Touch(cache, text) == Append(WithoutText(cache, text), Entry(cache, text))

\* Fault: a hit tells the tokens of a call to the provider.
HitCountsTokens(cache, text) == Answered(Entry(cache, text).embedding, 1)

\* No tokens are told for a hit.
Hit(cache, text) == Answered(Entry(cache, text).embedding, None)

\* What put makes room by dropping.
Evicted(cache, text) ==
    IF text \notin Keys(cache) /\ Len(cache) = Capacity THEN {Head(cache).text} ELSE {}

\* Fault: put never drops an entry.
PutUnbounded(cache, text, embedding) ==
    Append(WithoutText(cache, text), [text |-> text, embedding |-> embedding])

\* Fault: a full cache takes nothing more.
PutWhileRoom(cache, text, embedding) ==
    IF Len(cache) = Capacity THEN cache
    ELSE Append(WithoutText(cache, text), [text |-> text, embedding |-> embedding])

Put(cache, text, embedding) ==
    LET others == IF Evicted(cache, text) = {} THEN WithoutText(cache, text) ELSE Tail(cache)
    IN  Append(others, [text |-> text, embedding |-> embedding])

-----------------------------------------------------------------------------
(* Retries. *)

IsRecoverable(error) ==
    error \notin {"ConfigError", "AuthenticationFailed", "InvalidModel"}

\* Fault: one attempt too many.
GivesUpLate(error, attempts) == ~IsRecoverable(error) \/ attempts > MaxRetries + 1

\* The error goes to the caller; attempts counts the one that has just failed.
GivesUp(error, attempts) == ~IsRecoverable(error) \/ attempts > MaxRetries

\* The delay after the next one; only the first is not capped.
NextDelay(delay) == IF 2 * delay < MaxDelay THEN 2 * delay ELSE MaxDelay
=============================================================================
