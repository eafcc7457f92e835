SPECIFICATION Spec
CONSTANTS
  GptConfig = gpt_config
  Payer = payer
  QueueAuthority = queue_authority
  GptProgram = gpt_program
  OracleProgram = oracle
  SystemProgram = system
  TuktukProgram = tuktuk
  Admin = admin
  TaskQueueAuthority = task_queue_authority
  TaskQueue = task_queue
  Task = task
  c1 = c1
  c2 = c2
  i1 = i1
  i2 = i2
  Contexts = {c1, c2}
  InteractionOf <- MCInteractionOf
  Prompts <- MCPrompts
  Answers <- MCAnswers
  Orders <- MCOrders
  NoAccount = none
INVARIANTS
  TasksRun
  ScheduledIsRequest
