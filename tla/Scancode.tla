------------------------------ MODULE Scancode ------------------------------
(***************************************************************************)
(* The decoder in kb_callback: it turns the bytes a PS/2 keyboard sends    *)
(* into the characters it queues, one byte per interrupt, with its state   *)
(* in three flags.  The keyboard and the typist are the environment: a key *)
(* goes down, repeats while it is held, and comes up; an extended key      *)
(* sends 0xE0 before its code each time.                                   *)
(*                                                                         *)
(* The tables are cut down to the keys a model uses.                       *)
(***************************************************************************)
EXTENDS Integers, Sequences

CONSTANTS
    Keys,       \* the keys the typist uses: records [code, ext]
    Repeating,  \* those of them that are held long enough to repeat
    MaxEvents   \* bound: key events in a behaviour

LeftShift == \h2A
RightShift == \h36
CapsLock == \h3A
ShiftCodes == {LeftShift, RightShift}

VARIABLES
    down,        \* keys held
    wire,        \* bytes sent and not yet read from port 0x60, each with its key
    sent,        \* events so far
    shift_down,
    caps_lock,
    esc_prefix,
    typist,      \* history: shifts held, caps, text typed and arrows released, as read
    out          \* history: the characters given to kfifo_put

decoderVars == <<down, wire, sent, shift_down, caps_lock, esc_prefix, typist, out>>

DecoderInit ==
    /\ down = {}
    /\ wire = <<>>
    /\ sent = 0
    /\ shift_down = FALSE
    /\ caps_lock = FALSE
    /\ esc_prefix = FALSE
    /\ typist = [shifts |-> {}, caps |-> FALSE, text |-> <<>>, released |-> 0]
    /\ out = <<>>

-----------------------------------------------------------------------------
(* The keyboard.                                                           *)

\* A byte of a key; what it says of it the handler does not see.
Says(key, what) ==
    [byte |-> CASE what = "prefix" -> \hE0
                [] what = "make"   -> key.code
                [] what = "break"  -> key.code + \h80,
     key |-> key, what |-> what]

CodesOf(key, what) ==
    IF key.ext THEN <<Says(key, "prefix"), Says(key, what)>> ELSE <<Says(key, what)>>

SendCodes(key, what) ==
    /\ sent < MaxEvents
    /\ sent' = sent + 1
    /\ wire' = wire \o CodesOf(key, what)
    /\ UNCHANGED <<shift_down, caps_lock, esc_prefix, typist, out>>

Press(key) ==
    /\ key \notin down \/ key \in Repeating
    /\ down' = down \cup {key}
    /\ SendCodes(key, "make")

Lift(key) ==
    /\ key \in down
    /\ down' = down \ {key}
    /\ SendCodes(key, "break")

-----------------------------------------------------------------------------
(* The tables.  0 is "no character".                                       *)

Letters == {"q", "a"}

Upper(ch) == CASE ch = "q" -> "Q" [] ch = "a" -> "A"

sc_normal(sc) ==
    CASE sc = \h02 -> "1"
      [] sc = \h10 -> "q"
      [] sc = \h1C -> "enter"
      [] sc = \h1E -> "a"
      [] OTHER -> "none"

sc_shift(sc) ==
    CASE sc = \h02 -> "!"
      [] sc_normal(sc) \in Letters -> Upper(sc_normal(sc))
      [] OTHER -> sc_normal(sc)

\* What an extended code queues: the four arrows.
Arrow(sc) ==
    CASE sc = \h48 -> <<"up">>
      [] sc = \h50 -> <<"down">>
      [] sc = \h4B -> <<"left">>
      [] sc = \h4D -> <<"right">>
      [] OTHER -> <<>>

\* Caps lock inverts the case of a letter.
WithCaps(ch) ==
    CASE caps_lock /\ ch \in Letters -> Upper(ch)
      [] caps_lock /\ \E l \in Letters : Upper(l) = ch -> CHOOSE l \in Letters : Upper(l) = ch
      [] OTHER -> ch

Decoded(sc) ==
    LET ch == IF shift_down THEN sc_shift(sc) ELSE sc_normal(sc)
    IN  IF ch = "none" THEN <<>> ELSE <<WithCaps(ch)>>

-----------------------------------------------------------------------------
(* What a US keyboard types, from the keys alone.                          *)

Typed(key, shift, caps) ==
    LET plain == sc_normal(key.code)
    IN  CASE key.ext -> Arrow(key.code)
          [] ~key.ext /\ plain = "none" -> <<>>
          [] ~key.ext /\ plain \in Letters -> IF shift # caps THEN <<Upper(plain)>> ELSE <<plain>>
          [] OTHER -> IF shift /\ plain = "1" THEN <<"!">> ELSE <<plain>>

Typist(st, said) ==
    LET key == said.key
        makes == said.what = "make"
        breaks == said.what = "break"
    IN  CASE breaks /\ key.ext -> [st EXCEPT !.released = @ + 1]
          [] breaks /\ ~key.ext -> [st EXCEPT !.shifts = @ \ {key.code}]
          [] makes /\ key.code \in ShiftCodes -> [st EXCEPT !.shifts = @ \cup {key.code}]
          [] makes /\ key.code = CapsLock -> [st EXCEPT !.caps = ~@]
          [] makes /\ key.code \notin ShiftCodes \cup {CapsLock} ->
               [st EXCEPT !.text = @ \o Typed(key, st.shifts # {}, st.caps)]
          [] OTHER -> st

-----------------------------------------------------------------------------
(* kb_callback, one branch per action, in the order of its tests.          *)

PortRead ==
    /\ wire' = Tail(wire)
    /\ typist' = Typist(typist, Head(wire))
    /\ UNCHANGED <<down, sent>>

Prefix(sc) ==
    /\ PortRead
    /\ sc = \hE0
    /\ esc_prefix' = TRUE
    /\ UNCHANGED <<shift_down, caps_lock, out>>

Release(sc) ==
    /\ PortRead
    /\ sc # \hE0 /\ sc >= \h80
    /\ shift_down' = IF sc - \h80 \in ShiftCodes THEN FALSE ELSE shift_down
    /\ UNCHANGED <<caps_lock, esc_prefix, out>>

ShiftMake(sc) ==
    /\ PortRead
    /\ sc \in ShiftCodes
    /\ shift_down' = TRUE
    /\ UNCHANGED <<caps_lock, esc_prefix, out>>

CapsMake(sc) ==
    /\ PortRead
    /\ sc = CapsLock
    /\ caps_lock' = ~caps_lock
    /\ UNCHANGED <<shift_down, esc_prefix, out>>

\* Mutant: the prefix outlives the code it belongs to.
MakeKeepsPrefix(sc) ==
    /\ PortRead
    /\ sc < \h80 /\ sc \notin ShiftCodes /\ sc # CapsLock
    /\ out' = out \o (IF esc_prefix THEN Arrow(sc) ELSE Decoded(sc))
    /\ UNCHANGED <<shift_down, caps_lock, esc_prefix>>

Make(sc) ==
    /\ PortRead
    /\ sc < \h80 /\ sc \notin ShiftCodes /\ sc # CapsLock
    /\ out' = out \o (IF esc_prefix THEN Arrow(sc) ELSE Decoded(sc))
    /\ esc_prefix' = FALSE
    /\ UNCHANGED <<shift_down, caps_lock>>

KbCallback ==
    /\ wire # <<>>
    /\ LET sc == Head(wire).byte
       IN  Prefix(sc) \/ Release(sc) \/ ShiftMake(sc) \/ CapsMake(sc) \/ Make(sc)

DecoderNext ==
    \/ \E key \in Keys : Press(key) \/ Lift(key)
    \/ KbCallback

DecoderSpec == DecoderInit /\ [][DecoderNext]_decoderVars

\* Codes of set 1 end at 0x58.  Left out are what a keyboard puts before arrows
\* while num lock is on, the keypad, whose codes the arrows share, and a second
\* shift key: both have one flag, so that it would matter which comes up first.
ASSUME ScancodeAssumption ==
    /\ Repeating \subseteq Keys
    /\ Keys \subseteq [code : 1 .. \h58, ext : BOOLEAN]
    /\ \A key \in Keys : IF key.ext THEN key.code \notin ShiftCodes \cup {CapsLock}
                                    ELSE Arrow(key.code) = <<>>
    /\ \A key, other \in Keys : {key.code, other.code} \subseteq ShiftCodes => key = other
    /\ MaxEvents \in Nat

-----------------------------------------------------------------------------
(* Properties.                                                             *)

Inks == {"1", "!", "q", "Q", "a", "A", "enter", "up", "down", "left", "right"}

Strokes == {<<ch>> : ch \in Inks}

DecoderTypeOK ==
    /\ down \subseteq Keys
    /\ wire \in Seq([byte : 0 .. 255, key : Keys, what : {"prefix", "make", "break"}])
    /\ sent \in 0 .. MaxEvents
    /\ {shift_down, caps_lock, esc_prefix} \subseteq BOOLEAN
    /\ typist \in [shifts : SUBSET ShiftCodes, caps : BOOLEAN,
                   text : Seq(Inks), released : Nat]
    /\ out \in Seq(Inks)

\* In any order of presses, repeats and releases each byte read queues what its
\* key typed, or nothing: letters, digits, shift and caps lock come out as typed,
\* in order, and what is lost is at most one character for each arrow released
\* (keyboard.c:47-86).
OneLostPerArrow ==
    /\ [][out' = out \/ \E t \in Strokes : /\ out' = out \o t
                                           /\ typist'.text = typist.text \o t]_decoderVars
    /\ [](Len(typist.text) - Len(out) <= typist.released)
=============================================================================
