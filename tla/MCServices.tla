----------------------------- MODULE MCServices -----------------------------
(***************************************************************************)
(* The services around the chat that share no state with each other: the    *)
(* event hub, the pool of API keys, the read-through caches, the first       *)
(* market search, the chats in Redis, the server process.  A behaviour       *)
(* follows one of them; the others stay in their initial states.             *)
(***************************************************************************)
EXTENDS ReadThrough, EventHub, KeyPool, RedisStore, Bootstrap

CONSTANT Connections

VARIABLES
    service,                                    \* the one that is followed
    listening, main, signal, connection

Life == INSTANCE Server WITH request <- connection

Services == {"caches", "hub", "pool", "bootstrap", "redis", "server"}

lifeVars == <<listening, main, signal, connection>>

FirstKey == CHOOSE k \in Keys : TRUE

ServicesInit ==
    /\ service \in Services
    /\ Init /\ HubInit /\ PoolInit /\ RedisInit /\ BootInit /\ Life!Init
    \* What idle callers asked for last matters to the caches alone.
    /\ service # "caches" => \A c \in Callers : call[c].key = FirstKey

Caches ==
    /\ service = "caches" /\ Next
    /\ UNCHANGED <<service, hubVars, poolVars, redisVars, bootVars, lifeVars>>
EventStream ==
    /\ service = "hub" /\ HubNext
    /\ UNCHANGED <<service, vars, poolVars, redisVars, bootVars, lifeVars>>
KeyRotation ==
    /\ service = "pool" /\ PoolNext
    /\ UNCHANGED <<service, vars, hubVars, redisVars, bootVars, lifeVars>>
ChatsInRedis ==
    /\ service = "redis" /\ RedisNext
    /\ UNCHANGED <<service, vars, hubVars, poolVars, bootVars, lifeVars>>
MarketSearch ==
    /\ service = "bootstrap" /\ BootNext
    /\ UNCHANGED <<service, vars, hubVars, poolVars, redisVars, lifeVars>>
ServerProcess ==
    /\ service = "server" /\ Life!Next
    /\ UNCHANGED <<service, vars, hubVars, poolVars, redisVars, bootVars>>

ServicesNext == Caches \/ EventStream \/ KeyRotation \/ ChatsInRedis \/ MarketSearch
                \/ ServerProcess

ServicesSpec ==
    /\ ServicesInit
    /\ [][ServicesNext]_<<service, vars, hubVars, poolVars, redisVars, bootVars, lifeVars>>
    /\ service = "hub" => HubFairness
    /\ service = "bootstrap" => BootFairness

\* What Bootstrap promises where it is followed, and what Server promises.
NothingLeftWaiting == service = "bootstrap" => SearchesLetGo
ShutdownIsGraceful == Life!ShutdownIsGraceful
=============================================================================
