------------------------------ MODULE FileStack ------------------------------
(***************************************************************************)
(* The files a BlockProcessor reads (framework/decode/block_processor.cpp):*)
(* a block may execute blocks of another file, from an offset, a given     *)
(* number of them or all up to its end.  One step is one ProcessBlock.     *)
(*                                                                         *)
(* Files are named; `content' gives the blocks of each, and an offset is   *)
(* the number of a block.  The cache of open streams keeps eight of them:  *)
(* with fewer files nothing is evicted, so that a file has one stream and  *)
(* one position.                                                           *)
(***************************************************************************)
EXTENDS Integers, Sequences

VARIABLES
  file_stack,   (* the ActiveFileContexts; the last one is the current file  *)
  position,     (* the next block of each stream                             *)
  block_index,  (* the number of blocks processed                            *)
  read_state    (* the ProcessBlockState of the last block                   *)

stack_vars == <<file_stack, position, block_index, read_state>>

ActiveFileContext(file, execute_till_eof, remaining_commands) ==
  [file |-> file, execute_till_eof |-> execute_till_eof,
   remaining_commands |-> remaining_commands]

CurrentFile == file_stack[Len(file_stack)]
Below(stack) == SubSeq(stack, 1, Len(stack) - 1)

NoFile ==
  file_stack = <<>> /\ position = <<>> /\ block_index = 0 /\ read_state = "none"

Open(main, names) ==
  /\ file_stack' = <<ActiveFileContext(main, TRUE, 0)>>
  /\ position' = [f \in names |-> 1]
  /\ block_index' = 0 /\ read_state' = "continue"

(* Mutant: the file is left one block late.                                  *)
DecrementRemainingCommands_Late(stack) ==
  LET current == stack[Len(stack)]
  IN IF current.execute_till_eof THEN stack
     ELSE IF current.remaining_commands = 0 THEN Below(stack)
     ELSE Append(Below(stack), ActiveFileContext(current.file, FALSE, current.remaining_commands - 1))

(* Counts down the file that is current after the block was processed.       *)
DecrementRemainingCommands(stack) ==
  LET current == stack[Len(stack)]
  IN IF current.execute_till_eof THEN stack
     ELSE IF current.remaining_commands = 1 THEN Below(stack)
     ELSE Append(Below(stack), ActiveFileContext(current.file, FALSE, current.remaining_commands - 1))

MayRead == read_state = "continue"
AtEof(content) == position[CurrentFile.file] > Len(content[CurrentFile.file])
NextBlock(content) == content[CurrentFile.file][position[CurrentFile.file]]

(* A block of its own content, which is left to the caller.                  *)
ProcessOwnBlock(content) ==
  /\ MayRead /\ ~AtEof(content) /\ NextBlock(content).kind # "execute"
  /\ position' = [position EXCEPT ![CurrentFile.file] = @ + 1]
  /\ file_stack' = DecrementRemainingCommands(file_stack)
  /\ block_index' = block_index + 1
  /\ UNCHANGED read_state

(* ProcessExecuteBlocksFromFile: the count of the new file includes the      *)
(* block that executes it, which is counted down with the new file current.  *)
ProcessExecuteBlocksFromFile(content) ==
  /\ MayRead /\ ~AtEof(content) /\ NextBlock(content).kind = "execute"
  /\ LET b == NextBlock(content)
         advanced == [position EXCEPT ![CurrentFile.file] = @ + 1]
     IN IF b.file \in DOMAIN content
          THEN /\ position' = [advanced EXCEPT ![b.file] = b.offset]
               /\ file_stack' = DecrementRemainingCommands(
                    Append(file_stack, ActiveFileContext(b.file, b.n_blocks = 0, b.n_blocks + 1)))
               /\ UNCHANGED read_state
          ELSE /\ position' = advanced
               /\ file_stack' = DecrementRemainingCommands(file_stack)
               /\ read_state' = "error"
  /\ block_index' = block_index + 1

(* HandleBlockEof: a file that is executed to its end is left; one that has  *)
(* fewer blocks than were asked for ends the processing.                     *)
HandleBlockEof(content) ==
  /\ MayRead /\ AtEof(content)
  /\ IF CurrentFile.execute_till_eof
       THEN /\ file_stack' = Below(file_stack)
            /\ read_state' = IF Len(file_stack) = 1 THEN "end_of_file" ELSE "continue"
       ELSE /\ read_state' = "end_processing"
            /\ UNCHANGED file_stack
  /\ UNCHANGED <<position, block_index>>
=============================================================================
