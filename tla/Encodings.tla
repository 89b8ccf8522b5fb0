------------------------------ MODULE Encodings ------------------------------
(***************************************************************************)
(* What one side writes and another reads: packets (the greeting, chat,    *)
(* the file list, the header of a download) and the configuration file.    *)
(* A packet's memory is kept and reused, and grows; its size says how much *)
(* of it is sent.                                                          *)
(*                                                                         *)
(* A character is a string, a text a sequence of characters.  The bytes of *)
(* a size are any characters, zero included.                               *)
(***************************************************************************)
EXTENDS Integers, SequencesExt

CONSTANTS
    Letter,     \* what a user may type, without white space
    Text,       \* bound: the texts that are written
    Sizes,      \* bound: the sizes of files
    SizeBytes,  \* sizeof(size_t): 8
    Reserved,   \* setReservedSize of the greeting (100) and of chat (1056)
    MaxFiles,   \* bound: files in a list
    Default     \* getDefaultConfig: key -> value

Zero == "\\0"
EndOfLine == "\n"
Character == Letter \cup {Zero, EndOfLine, ":", " "}

ASSUME TextAssumption == Text \subseteq Seq(Letter)
ASSUME SizesAssumption == Sizes \subseteq [1..SizeBytes -> Character]
ASSUME LetterAssumption == Letter \cap {Zero, EndOfLine, " "} = {}
ASSUME ReservedAssumption == Reserved \in Nat /\ SizeBytes \in Nat \ {0}
ASSUME DefaultAssumption ==
    \A key \in DOMAIN Default : key \in Seq(Letter \ {":"}) /\ Default[key] \in Seq(Letter)

Name == Text \ {<<>>}
File == [size : Sizes, name : Name]

VARIABLES
    username,   \* m_username of a session, empty before the greeting
    chat,       \* its m_chat_packet
    written     \* the last text: of which kind, its characters, what it says

vars == <<username, chat, written>>

-----------------------------------------------------------------------------
(* Packet *)

NewPacket == [memory |-> <<>>, size |-> 0]

\* Mutation: the old memory is not copied.
SetReservedSizeAfresh(packet, n) ==
    [packet EXCEPT !.memory = [i \in 1..n |-> Zero]]

SetReservedSize(packet, n) ==
    [packet EXCEPT !.memory = [i \in 1..n |-> IF i <= Len(@) THEN @[i] ELSE Zero]]

SetSize(packet, n) ==
    [IF n > Len(packet.memory) THEN SetReservedSize(packet, n) ELSE packet EXCEPT !.size = n]

\* memcpy
Copy(packet, text, offset) ==
    [packet EXCEPT !.memory = [i \in DOMAIN @ |->
        IF i - offset \in 1..Len(text) THEN text[i - offset] ELSE @[i]]]

SetStringOffset(packet, text, offset) ==
    Copy(SetSize(packet, Len(text) + offset), text, offset)

SetString(packet, text) == SetStringOffset(packet, text, 0)

Appended(packet, text) == SetStringOffset(packet, text, packet.size)

AsString(packet) == SubSeq(packet.memory, 1, packet.size)

\* The first place of a character in a text, or 0: find.
Find(text, character) == SelectInSeq(text, LAMBDA c : c = character)

-----------------------------------------------------------------------------
(* Greeting, Client::onConnect and Session::onPacketReceive *)

WriteUserInfo(password, user) ==
    LET reserved == SetReservedSize(NewPacket, Reserved)
    IN  AsString(Appended(Appended(SetString(reserved, password), <<Zero>>), user))

ReadUserInfo(text) ==
    LET end == Find(text, Zero)
    IN  [password |-> SubSeq(text, 1, end - 1), username |-> SubSeq(text, end + 1, Len(text))]

(* File list, getFileList and Client::onPacketReceive *)

WriteFileList(files) ==
    AsString(SetString(NewPacket,
        FlattenSeq([i \in DOMAIN files |-> files[i].size \o files[i].name \o <<Zero>>])))

\* string_start is where a name begins, after its file's size.
ReadFileList(text) ==
    LET read[start \in Nat] ==
            LET length == Find(SubSeq(text, start, Len(text)), Zero)
            IN  IF length = 0 THEN <<>>
                ELSE <<[size |-> SubSeq(text, start - SizeBytes, start - 1),
                        name |-> SubSeq(text, start, start + length - 2)]>>
                     \o read[start + length + SizeBytes]
    IN  read[SizeBytes + 1]

(* Header of a download, Session::onPacketReceive and Client::onPacketReceive *)

WriteHeader(file) ==
    AsString(Copy(SetStringOffset(NewPacket, file.name, SizeBytes), file.size, 0))

ReadHeader(text) ==
    [size |-> SubSeq(text, 1, SizeBytes), name |-> SubSeq(text, SizeBytes + 1, Len(text))]

(* Configuration file, saveConfig and loadConfig *)

Order == {keys \in [1..Cardinality(DOMAIN Default) -> DOMAIN Default] : IsInjective(keys)}

\* The order of an unordered_map is any.
WriteConfig(config, keys) ==
    FlattenSeq([i \in DOMAIN keys |-> keys[i] \o <<":", " ">> \o config[keys[i]] \o <<EndOfLine>>])

Lines(text) ==
    LET lines[start \in Nat] ==
            LET rest == SubSeq(text, start, Len(text))
                end == Find(rest, EndOfLine)
            IN  IF rest = <<>> THEN <<>>
                ELSE IF end = 0 THEN <<rest>>
                ELSE <<SubSeq(rest, 1, end - 1)>> \o lines[start + end]
    IN  lines[1]

\* Mutation: a value ends at the next colon.
LoadLineAtLastColon(config, line) ==
    LET stripped == SelectSeq(line, LAMBDA c : c # " ")
        split == SelectLastInSeq(stripped, LAMBDA c : c = ":")
    IN  IF split = 0 THEN config
        ELSE SubSeq(stripped, 1, split - 1)
                :> SubSeq(stripped, split + 1, Len(stripped)) @@ config

LoadLine(config, line) ==
    LET stripped == SelectSeq(line, LAMBDA c : c # " ")
        split == Find(stripped, ":")
    IN  IF split = 0 THEN config
        ELSE SubSeq(stripped, 1, split - 1)
                :> SubSeq(stripped, split + 1, Len(stripped)) @@ config

ReadConfig(text) == FoldLeft(LoadLine, Default, Lines(text))

-----------------------------------------------------------------------------
(* What is written *)

Written(kind, text, says) == [kind |-> kind, text |-> text, says |-> says]

Init ==
    /\ username = <<>>
    /\ chat = SetReservedSize(NewPacket, Reserved)
    /\ written = Written("nothing", <<>>, <<>>)

\* The session prepares its chat packet with the name it read.
Greet ==
    /\ username = <<>>
    /\ \E password \in Text, user \in Name :
        LET text == WriteUserInfo(password, user)
            read == ReadUserInfo(text)
        IN  /\ username' = read.username
            /\ chat' = Appended(SetString(chat, read.username), <<":", " ">>)
            /\ written' = Written("UserInfo", text, [password |-> password, username |-> user])

BroadcastChatMessage ==
    /\ username # <<>>
    /\ \E message \in Name :
        /\ chat' = Appended(SetStringOffset(chat, message, Len(username) + 2), <<EndOfLine>>)
        /\ written' = Written("MessageChat", AsString(chat'),
                              username \o <<":", " ">> \o message \o <<EndOfLine>>)
    /\ UNCHANGED username

BroadcastFileList ==
    /\ \E n \in 0..MaxFiles : \E files \in [1..n -> File] :
        written' = Written("FileUploadList", WriteFileList(files), files)
    /\ UNCHANGED <<username, chat>>

SendHeader ==
    /\ \E file \in File : written' = Written("FileDataHeader", WriteHeader(file), file)
    /\ UNCHANGED <<username, chat>>

SaveConfig ==
    /\ \E config \in [DOMAIN Default -> Text], keys \in Order :
        written' = Written("Config", WriteConfig(config, keys), config)
    /\ UNCHANGED <<username, chat>>

\* The program ends while the file is written: a prefix of the text is left.
CrashInSaveConfig ==
    /\ written.kind = "Config"
    /\ \E n \in 0..(Len(written.text) - 1) :
        written' = Written("CutConfig", SubSeq(written.text, 1, n), written.says)
    /\ UNCHANGED <<username, chat>>

Next == Greet \/ BroadcastChatMessage \/ BroadcastFileList \/ SendHeader \/ SaveConfig
        \/ CrashInSaveConfig

Spec == Init /\ [][Next]_vars

-----------------------------------------------------------------------------
(* Properties *)

\* The greeting, the file list and the header are read as they were meant,
\* whatever bytes a size has; a chat message has its sender's name, whatever
\* the packet said before.
PacketsReadBack ==
    /\ written.kind = "UserInfo" => ReadUserInfo(written.text) = written.says
    /\ written.kind = "FileUploadList" => ReadFileList(written.text) = written.says
    /\ written.kind = "FileDataHeader" => ReadHeader(written.text) = written.says
    /\ written.kind = "MessageChat" => written.text = written.says

\* A configuration that was saved is loaded the same, colons in its values
\* included.  When saving was cut short, every value is a beginning of the
\* saved one, or the default.
ConfigReadsBack ==
    /\ written.kind = "Config" => ReadConfig(written.text) = written.says
    /\ written.kind = "CutConfig" =>
        LET loaded == ReadConfig(written.text)
        IN  /\ DOMAIN loaded = DOMAIN Default
            /\ \A key \in DOMAIN Default :
                loaded[key] = Default[key] \/ IsPrefix(loaded[key], written.says[key])
=============================================================================
