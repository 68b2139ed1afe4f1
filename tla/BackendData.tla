---------------------------- MODULE BackendData -----------------------------
(***************************************************************************)
(* The main backend's data and the pure rules of app/connectors/fake.py:   *)
(* who may see a conversation, and what its last messages are.             *)
(***************************************************************************)
EXTENDS Integers, Sequences, FiniteSets

CONSTANTS
    Tasks,          \* coroutines that call the connector
    Convs,          \* conversation ids callers may name
    Known,          \* those the backend has
    Actors,         \* end users, by id
    Staff,          \* actors on the staff side
    OwnerOf,        \* the owner of each known conversation
    OrdersOf,       \* the number of orders of each actor
    Keys,           \* idempotency keys: ids of the messages that are replied to
    ConvOf,         \* the conversation of each of those messages
    NoKey,          \* a message or request without an idempotency key
    Limits          \* the `limit` arguments of get_messages

ORDERS_LIMIT == 3  \* the default of get_recent_orders

Reads == {"get_conversation", "get_messages", "list_kb_items", "get_recent_orders"}
Writes == {"post_assistant_message", "handoff"}
Handlers == {"assistant", "staff"}

ASSUME KnownAssumption == /\ Known \subseteq Convs /\ OwnerOf \in [Known -> Actors]
                          /\ OrdersOf \in [Actors \cup Staff -> Nat]
ASSUME KeysAssumption == NoKey \notin Keys /\ ConvOf \in [Keys -> Convs]
ASSUME LimitsAssumption == Limits \subseteq Nat

\* messages[-limit:], with no guard for the 0 that means "from the start"
LastN_NoGuard(s, limit) ==
    IF limit = 0 THEN s
    ELSE SubSeq(s, IF Len(s) > limit THEN Len(s) - limit + 1 ELSE 1, Len(s))

\* messages[-limit:] if limit > 0 else []
LastN(s, limit) ==
    IF limit = 0 THEN << >>
    ELSE SubSeq(s, IF Len(s) > limit THEN Len(s) - limit + 1 ELSE 1, Len(s))

\* _visible: the staff side sees every conversation, an owner its own.
Visible(conv, actor) ==
    conv \in Known /\ (actor \in Staff \/ OwnerOf[conv] = actor)
=============================================================================
