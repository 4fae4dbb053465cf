--------------------------- MODULE MCQuoteConsent ---------------------------
(* Texts for QuoteConsent, each read as the patterns of engine.py,          *)
(* verified_answers.py and runner.py read the words beside it.              *)
EXTENDS QuoteConsent, TLC

Plain == [hold |-> FALSE, signal |-> "none", optIn |-> FALSE, yes |-> FALSE,
          consult |-> FALSE, items |-> "none", name |-> FALSE]
Read(signal) == [Plain EXCEPT !.signal = signal]
Holding(signal) == [Read(signal) EXCEPT !.hold = TRUE, !.consult = TRUE]

Words == {
    Plain,                                                        \* what is the price
    [Plain EXCEPT !.yes = TRUE],                                  \* ok
    [Read("granted") EXCEPT !.optIn = TRUE, !.yes = TRUE],        \* prepare the quotation
    [Plain EXCEPT !.optIn = TRUE],                                \* generate a proforma invoice
    [Read("granted") EXCEPT !.optIn = TRUE, !.consult = TRUE],    \* prepare the quote, but the price is too high
    Read("granted"),                                              \* get me a quote
    Read("deferred"),                                             \* let's pause the quotation
    [Read("deferred") EXCEPT !.optIn = TRUE],                     \* send the quotation later
    Read("declined"),                                             \* no quote please
    [Read("declined") EXCEPT !.yes = TRUE],                       \* ok, no quote please
    Holding("declined"),                                          \* I don't need a quotation
    Holding("deferred"),                                          \* no quotation yet
    Holding("none"),                                              \* without sending an invoice
    [Plain EXCEPT !.name = TRUE],                                 \* Ahmed
    Holding("granted"),                                           \* we are not ready for a quotation now
    [Plain EXCEPT !.items = "selection"],                         \* I take 2 x CH-616
    [Plain EXCEPT !.items = "order"],                             \* sales order: 2 x CH-616
    [Read("deferred") EXCEPT !.items = "order"],                  \* sales order: 2 x CH-616, let's pause the quotation
    [Read("granted") EXCEPT !.optIn = TRUE, !.items = "order"],   \* prepare a quotation for 2 x CH-616
    [Holding("deferred") EXCEPT !.items = "order"]                \* 2 x CH-616, but no quotation yet
}

\* Of the requests the name gate keeps, one for each way the rest of a turn
\* goes: an opt-in, a selection, an order and a misread hold.
Kept == {
    [Read("granted") EXCEPT !.optIn = TRUE, !.yes = TRUE],
    [Plain EXCEPT !.items = "selection"],
    [Plain EXCEPT !.items = "order"],
    Holding("granted")
}
=============================================================================
